---------------------------- MODULE Spec2Model ----------------------------
(***************************************************************************)
(* A model of bootcom (setros/bootcom): the cancellable wait for a serial   *)
(* device (utils/ports.rs), the terminal relay of the boot protocol        *)
(* (boot_protocol/states.rs) and the kernel push (utils/kernel.rs).        *)
(*                                                                         *)
(* Three specifications share the module:                                   *)
(*   SpecWait    wait_for_port: the poller (main thread), the cancellation  *)
(*               thread, the two mpsc channels, and the Device Manager's    *)
(*               step out of WaitForPort;                                   *)
(*   SpecTerm    TerminalModeState::run;                                    *)
(*   SpecKernel  KernelSendModeState::run calling send_kernel.              *)
(* Each keeps the variables of the other two at their idle values.         *)
(***************************************************************************)
EXTENDS Integers, Sequences, FiniteSets, TLC

VARIABLES
    (* ---- wait_for_port (utils/ports.rs) ---- *)
    attached,        \* environment: indices of SysPorts currently plugged in
    found_ports,     \* ports.rs:100  let mut found_ports: Vec<String>
    attempt,         \* ports.rs:101  let mut attempt: usize = 1
    cancelled,       \* ports.rs:152  let mut cancelled = false
    main_pc,         \* position of the main thread (the poller)
    watch_pc,        \* position of the cancellation thread (the watcher)
    cancel_chan,     \* messages in flight on (cancel_tx, cancel_rx)
    done_chan,       \* messages in flight on (done_tx, done_rx)
    watcher_ends,    \* TRUE while the watcher's closure still owns done_rx and cancel_tx
    dm_state,        \* the Device Manager's state around this wait
    wh,              \* history of the wait, read by the properties only
    (* ---- TerminalModeState::run (boot_protocol/states.rs) ---- *)
    port_in,         \* the serial port's input buffer: bytes the device sent, not yet read
    available,       \* states.rs:125  the value bytes_to_read() returned
    stdout,          \* the bytes written to the session output
    send_kernel,     \* states.rs:114  let mut send_kernel = false
    got_errors,      \* states.rs:113  let mut got_errors = false
    term_pc,         \* position of TerminalModeState::run
    term_event,      \* the Event run returns
    th,              \* history of the relay, read by the properties only
    (* ---- KernelSendModeState::run and send_kernel (utils/kernel.rs) ---- *)
    image,           \* environment: the file at settings.kernel_image, or NoFile
    file,            \* kernel.rs:58   the opened File (metadata length, contents, read position)
    k_in,            \* the serial port's input buffer
    port_out,        \* the bytes the port accepted during the current attempt
    ok_buf,          \* kernel.rs:89   let mut ok: Vec<u8> = vec![0; 2]
    tries,           \* the try retry() is at while polling for the reply
    written,         \* kernel.rs:138  let mut written: usize = 0
    chunk,           \* kernel.rs:147  chunk[..bytes_in], the bytes read from the file
    kern_pc,         \* position of KernelSendModeState::run / send_kernel
    kern_event,      \* the Event run returns
    kh,              \* history of the push, read by the properties only
    (* ---- the two state machines (boot_server, boot_protocol) ---- *)
    dm,              \* DeviceManagerStates: the current state with its settings
    dm_pc,           \* position of SingletonReader::run
    dm_status,       \* the status SingletonReader::run returned, -1 before
    bp,              \* ProtocolStates: the current state with its settings and port
    bp_pc,           \* position of SerialBootProtocol::run
    bp_status,       \* the status SerialBootProtocol::run returned, -1 before
    open_index,      \* ports.rs:218  the try retry_with_index is at
    ports_opened,    \* how many port objects builder.open() has returned
    open_ports,      \* the port objects that are open: returned by open() and not dropped
    mh,              \* history of the machines, read by the properties only
    (* ---- SettingsBuilder (settings.rs) ---- *)
    sb,              \* settings.rs:52  the builder: its field `settings`
    sb_pc,           \* position of the code that uses the builder
    sb_result,       \* the Settings finalize returned
    sbh              \* history of the setter calls, read by the properties only

waitVars == <<attached, found_ports, attempt, cancelled, main_pc, watch_pc,
              cancel_chan, done_chan, watcher_ends, dm_state, wh>>

termVars == <<port_in, available, stdout, send_kernel, got_errors, term_pc,
              term_event, th>>

kernVars == <<image, file, k_in, port_out, ok_buf, tries, written, chunk, kern_pc,
              kern_event, kh>>

machVars == <<dm, dm_pc, dm_status, bp, bp_pc, bp_status, open_index,
              ports_opened, open_ports, mh>>

buildVars == <<sb, sb_pc, sb_result, sbh>>

vars == <<waitVars, termVars, kernVars, machVars, buildVars>>

\* what an action of one component leaves alone
notWaitVars == <<termVars, kernVars, machVars, buildVars>>
notTermVars == <<waitVars, kernVars, machVars, buildVars>>
notKernVars == <<waitVars, termVars, machVars, buildVars>>
notMachVars == <<waitVars, termVars, kernVars, buildVars>>
notBuildVars == <<waitVars, termVars, kernVars, machVars>>

(***************************************************************************)
(* Bounds of the model.                                                     *)
(***************************************************************************)
\* the poller's `attempt` counter stops growing here (it only feeds the spinner text)
MaxAttempt == 3

(***************************************************************************)
(* Characters and strings.  A string is a sequence of characters.           *)
(***************************************************************************)
ChColon  == ":"
ChSpace  == " "
ChLParen == "("
ChRParen == ")"
ChSlash  == "/"
ChU      == "U"
ChZero   == "0"
ChOne    == "1"

\* settings.path handed to wait_for_port: "/U0"
Path == <<ChSlash, ChU, ChZero>>

\* What the operating system can list.  usb ports are decorated by the
\* enumerator, the others are listed by their raw name.
SysPorts ==
    << [port_name |-> <<ChSlash, ChU, ChZero>>, usb |-> TRUE,
        manufacturer |-> <<ChU>>, product |-> <<>>],
       [port_name |-> <<ChSlash, ChU>>, usb |-> FALSE,
        manufacturer |-> <<>>, product |-> <<>>],
       [port_name |-> <<ChSlash, ChU, ChOne>>, usb |-> TRUE,
        manufacturer |-> <<>>, product |-> <<ChZero>>] >>

(***************************************************************************)
(* utils/ports.rs: pure helpers                                             *)
(***************************************************************************)
\* str::starts_with, compared character by character
RECURSIVE starts_with(_, _)
starts_with(s, p) ==
    IF p = <<>> THEN TRUE
    ELSE IF s = <<>> THEN FALSE
    ELSE IF Head(s) # Head(p) THEN FALSE
    ELSE starts_with(Tail(s), Tail(p))

\* a plausible slip: the receiver and the argument of starts_with swapped
check_requested_port_swapped(ports, path) ==
    \E i \in 1..Len(ports) : starts_with(path, ports[i])

\* fn check_requested_port(ports: &[String], path: &str) -> bool
RECURSIVE check_requested_port(_, _)
check_requested_port(ports, path) ==
    IF ports = <<>> THEN FALSE
    ELSE IF starts_with(Head(ports), path) THEN TRUE
    ELSE check_requested_port(Tail(ports), path)

\* format!("{}: ({} / {})", port_name, manufacturer, product)
extended_name(p) ==
    p.port_name \o <<ChColon, ChSpace, ChLParen>> \o p.manufacturer
        \o <<ChSpace, ChSlash, ChSpace>> \o p.product \o <<ChRParen>>

\* fn enumerate_usb_serial_ports() -> Vec<String>; ok = FALSE is the
\* Err arm of available_ports(), which leaves the list empty
RECURSIVE enumerate_from(_, _)
enumerate_from(i, att) ==
    IF i > Len(SysPorts) THEN <<>>
    ELSE (IF i \in att
          THEN << IF SysPorts[i].usb THEN extended_name(SysPorts[i])
                                     ELSE SysPorts[i].port_name >>
          ELSE <<>>) \o enumerate_from(i + 1, att)

enumerate_usb_serial_ports(att, ok) ==
    IF ok THEN enumerate_from(1, att) ELSE <<>>

(***************************************************************************)
(* What the properties mean by "some enumerated identifier has the         *)
(* expected path as a prefix".                                              *)
(***************************************************************************)
IsPrefixOf(p, s) ==
    /\ Len(p) <= Len(s)
    /\ \A i \in 1..Len(p) : s[i] = p[i]

HasExpected(ports) == \E i \in 1..Len(ports) : IsPrefixOf(Path, ports[i])

\* the device is enumerable right now
DeviceEnumerable(att) == HasExpected(enumerate_from(1, att))


(***************************************************************************)
(* wait_for_port: the state after the channels are created and the         *)
(* cancellation thread is spawned (ports.rs:100-152).  The wait may start   *)
(* with any set of devices plugged in.                                      *)
(***************************************************************************)
\* the component is not running: its variables rest at these values
WaitIdle ==
    /\ attached = {}
    /\ found_ports = <<>>
    /\ attempt = 1
    /\ cancelled = FALSE
    /\ main_pc = "idle"
    /\ watch_pc = "idle"
    /\ cancel_chan = <<>>
    /\ done_chan = <<>>
    /\ watcher_ends = FALSE
    /\ dm_state = "Service"
    /\ wh = <<>>

TermIdle ==
    /\ port_in = <<>>
    /\ available = 0
    /\ stdout = <<>>
    /\ send_kernel = FALSE
    /\ got_errors = FALSE
    /\ term_pc = "idle"
    /\ term_event = "none"
    /\ th = <<>>

\* no file: File::open fails, or nothing is open yet
NoFile ==
    [size_hi |-> 0, size_b31 |-> 0, size |-> 0, data |-> <<>>, pos |-> 0,
     exists |-> FALSE]

KernIdle ==
    /\ image = NoFile
    /\ file = NoFile
    /\ k_in = <<>>
    /\ port_out = <<>>
    /\ ok_buf = <<0, 0>>
    /\ tries = 0
    /\ written = 0
    /\ chunk = <<>>
    /\ kern_pc = "idle"
    /\ kern_event = "none"
    /\ kh = <<>>

MachIdle ==
    /\ dm = <<>>
    /\ dm_pc = "idle"
    /\ dm_status = -1
    /\ bp = <<>>
    /\ bp_pc = "idle"
    /\ bp_status = -1
    /\ open_index = 0
    /\ ports_opened = 0
    /\ open_ports = {}
    /\ mh = <<>>

BuildIdle ==
    /\ sb = <<>>
    /\ sb_pc = "idle"
    /\ sb_result = <<>>
    /\ sbh = <<>>

WaitHistInit(att) ==
    [ dev_ever            |-> DeviceEnumerable(att),
      esc_seen            |-> FALSE,
      ready_before_esc    |-> FALSE,
      cancel_sent         |-> FALSE,
      cancel_before_ready |-> FALSE,
      done_sent           |-> FALSE,
      found_hit           |-> FALSE,
      found_before_esc    |-> FALSE,
      enum_hit            |-> FALSE,
      race_found          |-> FALSE,
      done_before_esc     |-> FALSE,
      enums_after_cancel  |-> 0 ]

WaitInit ==
    /\ attached \in SUBSET (1..Len(SysPorts))
    /\ found_ports = <<>>
    /\ attempt = 1
    /\ cancelled = FALSE
    /\ main_pc = "enumerate"
    /\ watch_pc = "try_recv"
    /\ cancel_chan = <<>>
    /\ done_chan = <<>>
    /\ watcher_ends = TRUE
    /\ dm_state = "WaitForPort"
    /\ wh = WaitHistInit(attached)

\* wait_for_port has neither returned nor unwound: cancel_rx and done_tx,
\* locals of its frame, are alive
WaitFrameAlive == main_pc \in {"enumerate", "send_done", "recv", "join"}

(***************************************************************************)
(* The environment: a device is plugged in or pulled out.                   *)
(***************************************************************************)
Plug(i) ==
    /\ WaitFrameAlive
    /\ i \notin attached
    /\ attached' = attached \cup {i}
    /\ wh' = [wh EXCEPT !.dev_ever = @ \/ DeviceEnumerable(attached \cup {i})]
    /\ UNCHANGED <<found_ports, attempt, cancelled, main_pc, watch_pc,
                   cancel_chan, done_chan, watcher_ends, dm_state>>
    /\ UNCHANGED notWaitVars

Unplug(i) ==
    /\ WaitFrameAlive
    /\ i \in attached
    /\ attached' = attached \ {i}
    /\ UNCHANGED <<found_ports, attempt, cancelled, main_pc, watch_pc,
                   cancel_chan, done_chan, watcher_ends, dm_state, wh>>
    /\ UNCHANGED notWaitVars

(***************************************************************************)
(* The poller: the loop of wait_for_port on the main thread                 *)
(* (ports.rs:153-203), then the join (ports.rs:206-208).                    *)
(***************************************************************************)
\* ports.rs:154-167: enumerate, check, and leave the loop towards the done
\* send when the port is there
PollerEnumerate(ok) ==
    /\ main_pc = "enumerate"
    /\ LET ports == enumerate_usb_serial_ports(attached, ok)
           found == check_requested_port(ports, Path)
       IN  /\ found_ports' = ports
           /\ main_pc' = IF found THEN "send_done" ELSE "recv"
           /\ wh' = [wh EXCEPT
                  !.found_hit = @ \/ found,
                  !.enum_hit = @ \/ HasExpected(ports),
                  !.race_found = @ \/ (found /\ cancel_chan # <<>>),
                  !.enums_after_cancel =
                        IF wh.cancel_sent /\ @ < 2 THEN @ + 1 ELSE @]
    /\ UNCHANGED <<attached, attempt, cancelled, watch_pc, cancel_chan,
                   done_chan, watcher_ends, dm_state>>
    /\ UNCHANGED notWaitVars

\* a plausible slip: the `break` after the done send is missing, so the
\* poller goes on to wait on the cancel channel
PollerSendDone_no_break ==
    /\ main_pc = "send_done"
    /\ IF watcher_ends
       THEN /\ done_chan' = Append(done_chan, 1)
            /\ main_pc' = "recv"
            /\ wh' = [wh EXCEPT !.done_sent = TRUE,
                                !.done_before_esc = ~wh.esc_seen]
       ELSE /\ main_pc' = "panicked"
            /\ UNCHANGED <<done_chan, wh>>
    /\ UNCHANGED <<attached, found_ports, attempt, cancelled, watch_pc,
                   cancel_chan, watcher_ends, dm_state>>
    /\ UNCHANGED notWaitVars

\* ports.rs:161-166: done_tx.send(1).expect(..); break.  Sender::send fails
\* when the receiver was dropped, and expect() then panics.
PollerSendDone ==
    /\ main_pc = "send_done"
    /\ IF watcher_ends
       THEN /\ done_chan' = Append(done_chan, 1)
            /\ main_pc' = "join"
            /\ wh' = [wh EXCEPT !.done_sent = TRUE,
                                !.done_before_esc = ~wh.esc_seen]
       ELSE /\ main_pc' = "panicked"
            /\ UNCHANGED <<done_chan, wh>>
    /\ UNCHANGED <<attached, found_ports, attempt, cancelled, watch_pc,
                   cancel_chan, watcher_ends, dm_state>>
    /\ UNCHANGED notWaitVars

\* a plausible slip: a received cancel signal is treated like a timeout
PollerRecv_ok_ignored ==
    /\ main_pc = "recv"
    /\ IF cancel_chan # <<>>
       THEN /\ cancel_chan' = Tail(cancel_chan)
            /\ main_pc' = "enumerate"
            /\ UNCHANGED <<cancelled, attempt>>
       ELSE IF ~watcher_ends
       THEN /\ cancelled' = TRUE
            /\ main_pc' = "join"
            /\ UNCHANGED <<cancel_chan, attempt>>
       ELSE /\ attempt < MaxAttempt
            /\ attempt' = attempt + 1
            /\ main_pc' = "enumerate"
            /\ UNCHANGED <<cancel_chan, cancelled>>
    /\ UNCHANGED <<attached, found_ports, watch_pc, done_chan, watcher_ends,
                   dm_state, wh>>
    /\ UNCHANGED notWaitVars

\* ports.rs:181-202: cancel_rx.recv_timeout(2 s).  Ok: cancelled; Timeout:
\* attempt += 1 and poll again; Disconnected (the sender is gone and nothing
\* is queued): cancelled.
PollerRecv ==
    /\ main_pc = "recv"
    /\ IF cancel_chan # <<>>
       THEN /\ cancel_chan' = Tail(cancel_chan)
            /\ cancelled' = TRUE
            /\ main_pc' = "join"
            /\ UNCHANGED attempt
       ELSE IF ~watcher_ends
       THEN /\ cancelled' = TRUE
            /\ main_pc' = "join"
            /\ UNCHANGED <<cancel_chan, attempt>>
       ELSE /\ attempt < MaxAttempt
            /\ attempt' = attempt + 1
            /\ main_pc' = "enumerate"
            /\ UNCHANGED <<cancel_chan, cancelled>>
    /\ UNCHANGED <<attached, found_ports, watch_pc, done_chan, watcher_ends,
                   dm_state, wh>>
    /\ UNCHANGED notWaitVars

\* a plausible slip: the function returns without joining the watcher
PollerJoin_no_join ==
    /\ main_pc = "join"
    /\ main_pc' = "returned"
    /\ UNCHANGED <<attached, found_ports, attempt, cancelled, watch_pc,
                   cancel_chan, done_chan, watcher_ends, dm_state, wh>>
    /\ UNCHANGED notWaitVars

\* ports.rs:206-210: join the cancellation thread, then return `cancelled`
PollerJoin ==
    /\ main_pc = "join"
    /\ watch_pc = "exited"
    /\ main_pc' = "returned"
    /\ UNCHANGED <<attached, found_ports, attempt, cancelled, watch_pc,
                   cancel_chan, done_chan, watcher_ends, dm_state, wh>>
    /\ UNCHANGED notWaitVars

(***************************************************************************)
(* The watcher: the cancellation thread (ports.rs:135-150) and              *)
(* poll_escape (utils/keyboard.rs:12-44).                                   *)
(***************************************************************************)
\* what one call of poll_escape can meet: no event within 500 ms, a key that
\* is neither ESC nor Ctrl+C, ESC, Ctrl+C, or a terminal error
PollOutcomes == {"timeout", "other_key", "esc", "ctrl_c", "error"}

\* fn poll_escape() -> Result<bool>; the value the watcher's
\* `if let Ok(esc)` sees, "exit" standing for process::exit(0)
poll_escape(outcome) ==
    CASE outcome = "esc"    -> "Ok(true)"
      [] outcome = "ctrl_c" -> "exit"
      [] outcome = "error"  -> "Err"
      [] OTHER              -> "Ok(false)"

\* a plausible slip: the test on try_recv is inverted, the watcher leaves
\* when no done signal is there
WatcherTryRecv_inverted ==
    /\ watch_pc = "try_recv"
    /\ IF done_chan # <<>>
       THEN /\ done_chan' = Tail(done_chan)
            /\ watch_pc' = "poll"
       ELSE /\ watch_pc' = "exit"
            /\ UNCHANGED done_chan
    /\ UNCHANGED <<attached, found_ports, attempt, cancelled, main_pc,
                   cancel_chan, watcher_ends, dm_state, wh>>
    /\ UNCHANGED notWaitVars

\* ports.rs:137-140: if done_rx.try_recv().is_ok() { break; }
WatcherTryRecv ==
    /\ watch_pc = "try_recv"
    /\ IF done_chan # <<>>
       THEN /\ done_chan' = Tail(done_chan)
            /\ watch_pc' = "exit"
       ELSE /\ watch_pc' = "poll"
            /\ UNCHANGED done_chan
    /\ UNCHANGED <<attached, found_ports, attempt, cancelled, main_pc,
                   cancel_chan, watcher_ends, dm_state, wh>>
    /\ UNCHANGED notWaitVars

\* ports.rs:142-143 with keyboard.rs:19-43: poll the keyboard once
WatcherPoll(outcome) ==
    /\ watch_pc = "poll"
    /\ LET r == poll_escape(outcome)
       IN  /\ watch_pc' = CASE r = "Ok(true)" -> "send_cancel"
                            [] r = "exit"     -> "killed"
                            [] OTHER          -> "try_recv"
           /\ main_pc' = IF r = "exit" THEN "killed" ELSE main_pc
           /\ wh' = IF r = "Ok(true)"
                    THEN [wh EXCEPT !.esc_seen = TRUE,
                                    !.ready_before_esc = wh.dev_ever]
                    ELSE wh
    /\ UNCHANGED <<attached, found_ports, attempt, cancelled, cancel_chan,
                   done_chan, watcher_ends, dm_state>>
    /\ UNCHANGED notWaitVars

\* a plausible slip: the `break` after the cancel send is missing, so the
\* watcher goes on polling the keyboard
WatcherSendCancel_no_break ==
    /\ watch_pc = "send_cancel"
    /\ IF WaitFrameAlive
       THEN /\ cancel_chan' = Append(cancel_chan, 1)
            /\ watch_pc' = "try_recv"
            /\ wh' = [wh EXCEPT !.cancel_sent = TRUE,
                                !.cancel_before_ready = ~wh.dev_ever]
       ELSE /\ watch_pc' = "panicked"
            /\ UNCHANGED <<cancel_chan, wh>>
    /\ UNCHANGED <<attached, found_ports, attempt, cancelled, main_pc,
                   done_chan, watcher_ends, dm_state>>
    /\ UNCHANGED notWaitVars

\* ports.rs:144-147: cancel_tx.send(1).expect(..); break.  The receiver
\* cancel_rx lives in wait_for_port's frame.
WatcherSendCancel ==
    /\ watch_pc = "send_cancel"
    /\ IF WaitFrameAlive
       THEN /\ cancel_chan' = Append(cancel_chan, 1)
            /\ watch_pc' = "exit"
            /\ wh' = [wh EXCEPT !.cancel_sent = TRUE,
                                !.cancel_before_ready = ~wh.dev_ever]
       ELSE /\ watch_pc' = "panicked"
            /\ UNCHANGED <<cancel_chan, wh>>
    /\ UNCHANGED <<attached, found_ports, attempt, cancelled, main_pc,
                   done_chan, watcher_ends, dm_state>>
    /\ UNCHANGED notWaitVars

\* ports.rs:150: the closure ends; done_rx and cancel_tx, which it owns,
\* are dropped and the thread is finished
WatcherExit ==
    /\ watch_pc = "exit"
    /\ watch_pc' = "exited"
    /\ watcher_ends' = FALSE
    /\ UNCHANGED <<attached, found_ports, attempt, cancelled, main_pc,
                   cancel_chan, done_chan, dm_state, wh>>
    /\ UNCHANGED notWaitVars

(***************************************************************************)
(* The Device Manager around the wait (boot_server/states.rs:74-91 and      *)
(* boot_server/state_machine.rs:184-191).                                   *)
(***************************************************************************)
\* a plausible slip: the two branches on `canceled` are exchanged
WaitForPortState_run_inverted(canceled) ==
    IF canceled THEN "PortReady" ELSE "SelectPort"

\* WaitForPortState::run: the event for the value wait_for_port returned
WaitForPortState_run(canceled) ==
    IF canceled THEN "SelectPort" ELSE "PortReady"

\* DeviceManagerStates::step, the WaitForPort arm
step_WaitForPort(event) ==
    CASE event = "PortReady"  -> "Service"
      [] event = "SelectPort" -> "SelectPort"
      [] OTHER                -> "unreachable"

WaitForPortStep ==
    /\ dm_state = "WaitForPort"
    /\ main_pc = "returned"
    /\ dm_state' = step_WaitForPort(WaitForPortState_run(cancelled))
    /\ UNCHANGED <<attached, found_ports, attempt, cancelled, main_pc,
                   watch_pc, cancel_chan, done_chan, watcher_ends, wh>>
    /\ UNCHANGED notWaitVars

(***************************************************************************)
(* SpecWait                                                                 *)
(***************************************************************************)
PollerNext ==
    \/ \E ok \in BOOLEAN : PollerEnumerate(ok)
    \/ PollerSendDone
    \/ PollerRecv
    \/ PollerJoin

WatcherNext ==
    \/ WatcherTryRecv
    \/ \E outcome \in PollOutcomes : WatcherPoll(outcome)
    \/ WatcherSendCancel
    \/ WatcherExit

WaitEnvNext == \E i \in 1..Len(SysPorts) : Plug(i) \/ Unplug(i)

WaitNext == PollerNext \/ WatcherNext \/ WaitEnvNext \/ WaitForPortStep

InitWait == WaitInit /\ TermIdle /\ KernIdle /\ MachIdle /\ BuildIdle

SpecWait == InitWait /\ [][WaitNext]_vars

(***************************************************************************)
(* Properties of wait_for_port, checked under SpecWait.                     *)
(***************************************************************************)
\* C1: wait_for_port reports ready only at an enumeration in which some
\* identifier starts with the expected path, and at the first enumeration
\* that contains one the poller stops polling and reports ready.
C1_ReadyExactlyAtFirstMatch ==
    /\ (main_pc = "send_done" => HasExpected(found_ports))
    /\ (main_pc = "returned" /\ ~cancelled => HasExpected(found_ports))
    /\ (wh.enum_hit =>
            /\ main_pc \in {"send_done", "join", "returned", "killed"}
            /\ ~cancelled)

\* C2 as stated: a cancel signalled strictly before the device becomes
\* enumerable makes the wait report cancelled.
C2_CancelBeforeReadyIsCancelled ==
    (main_pc = "returned" /\ wh.cancel_before_ready) => cancelled

\* C2 amended: once the cancel is signalled the poller enumerates at most
\* once more, and unless an enumeration finds the device the wait reports
\* cancelled.
C2_CancelWinsUnlessFound ==
    wh.cancel_sent =>
        /\ wh.enums_after_cancel <= 1
        /\ (main_pc \in {"returned", "panicked"} /\ ~wh.found_hit
                => main_pc = "returned" /\ cancelled)

C2_Witness ==
    /\ main_pc = "returned"
    /\ cancelled
    /\ wh.cancel_before_ready
    /\ wh.enums_after_cancel = 1
    /\ wh.dev_ever

\* C3 as stated: a device that becomes enumerable strictly before any
\* cancel input makes the wait report ready.
C3_ReadyBeforeCancelIsReady ==
    (main_pc = "returned" /\ wh.dev_ever
        /\ (wh.esc_seen => wh.ready_before_esc)) => ~cancelled

\* C3 amended: when the poller has found the device and sent the done signal
\* before any cancel input is detected, the wait reports ready and the
\* manager does not go to SelectPort.
C3_DoneBeforeCancelIsReady ==
    wh.done_before_esc =>
        /\ main_pc \in {"join", "returned", "killed"}
        /\ ~cancelled
        /\ dm_state \in {"WaitForPort", "Service"}

C3_Witness ==
    /\ wh.done_before_esc
    /\ wh.esc_seen
    /\ wh.cancel_sent
    /\ main_pc = "returned"
    /\ dm_state = "Service"

\* C4: once the device has been found or a cancel has been signalled, the
\* poller and the watcher run to their ends and wait_for_port returns: no
\* state is reached in which neither can move and the wait has not returned.
C4_WaitAlwaysReturns ==
    (wh.found_hit \/ wh.cancel_sent) =>
        \/ main_pc \in {"returned", "killed"}
        \/ ENABLED (PollerNext \/ WatcherNext)

\* C5: when wait_for_port returns the watcher has terminated and dropped its
\* channel ends (it can send nothing any more), and a wait that reports
\* ready has sent its done signal before returning.
C5_WatcherGoneAtReturn ==
    main_pc = "returned" =>
        /\ watch_pc = "exited"
        /\ ~watcher_ends
        /\ (cancelled \/ wh.done_sent)

C5_Witness ==
    /\ main_pc = "returned"
    /\ wh.done_sent
    /\ wh.cancel_sent
    /\ cancel_chan # <<>>

\* C6: when the poller's enumeration finds the device while a cancel signal
\* is sent and not yet received, the wait reports ready and the Device
\* Manager goes to Service.
C6_FoundBeatsPendingCancel ==
    wh.race_found =>
        /\ main_pc \in {"send_done", "join", "returned", "killed"}
        /\ ~cancelled
        /\ dm_state \in {"WaitForPort", "Service"}

(***************************************************************************)
(* TerminalModeState::run (boot_protocol/states.rs:108-198)                 *)
(***************************************************************************)
\* the device may send this many bytes in all during one run
MaxDeviceBytes == 5

\* states.rs:138  the byte a send_kernel command is made of
ETX == 3
\* states.rs:149  println!() ends the line after each chunk
LineFeed == 10
\* states.rs:130  at most this many bytes are read at a time
ReadMax == 4096
\* a printable byte, 'A'
LetterA == 65

\* what the device sends
DeviceBytes == {ETX, LetterA}

min(a, b) == IF a < b THEN a ELSE b

\* states.rs:135-140: serial_buf[..t].iter().rev().take_while(|b| **b == 3)
RECURSIVE take_while_rev_is_3(_)
take_while_rev_is_3(buf) ==
    IF buf = <<>> THEN <<>>
    ELSE IF buf[Len(buf)] = ETX
         THEN <<ETX>> \o take_while_rev_is_3(SubSeq(buf, 1, Len(buf) - 1))
         ELSE <<>>

\* a plausible slip: the chunk only has to end with three 0x03 bytes
is_send_kernel_command_ends_with(buf) ==
    /\ Len(buf) >= 3
    /\ SubSeq(buf, Len(buf) - 2, Len(buf)) = <<ETX, ETX, ETX>>

\* states.rs:142: if command == [3, 3, 3]
is_send_kernel_command(buf) ==
    take_while_rev_is_3(buf) = <<ETX, ETX, ETX>>

TermHistInit ==
    [ dev_sent  |-> 0,       \* bytes the device has sent
      read_log  |-> <<>>,    \* every byte read from the port, in order
      reads     |-> 0,       \* 1 once a chunk has been read
      chunk     |-> <<>>,    \* the last chunk read, serial_buf[..t] as read
      forwarded |-> <<>>,    \* what write_all was given for that chunk
      io_errors |-> 0 ]      \* failed bytes_to_read and read calls

\* the state TerminalMode is entered in: the port is open and the device may
\* already have sent bytes
TermInit ==
    /\ port_in \in {<<>>} \cup {<<b>> : b \in DeviceBytes}
    /\ available = 0
    /\ stdout = <<>>
    /\ send_kernel = FALSE
    /\ got_errors = FALSE
    /\ term_pc = "bytes_to_read"
    /\ term_event = "none"
    /\ th = [TermHistInit EXCEPT !.dev_sent = Len(port_in)]

\* the environment: the device sends one more byte
DeviceSend(b) ==
    /\ term_pc \in {"bytes_to_read", "read"}
    /\ th.dev_sent < MaxDeviceBytes
    /\ port_in' = Append(port_in, b)
    /\ th' = [th EXCEPT !.dev_sent = @ + 1]
    /\ UNCHANGED <<available, stdout, send_kernel, got_errors, term_pc,
                   term_event>>
    /\ UNCHANGED notTermVars

\* states.rs:124-127 and 173-179: port.bytes_to_read(); nothing pending:
\* sleep 100 ms and ask again; an error ends the loop
TermBytesToRead(ok) ==
    /\ term_pc = "bytes_to_read"
    /\ IF ok
       THEN /\ available' = Len(port_in)
            /\ term_pc' = IF Len(port_in) > 0 THEN "read" ELSE "bytes_to_read"
            /\ UNCHANGED got_errors
       ELSE /\ got_errors' = TRUE
            /\ term_pc' = "after_loop"
            /\ UNCHANGED available
    /\ th' = IF ok THEN th ELSE [th EXCEPT !.io_errors = @ + 1]
    /\ UNCHANGED <<port_in, stdout, send_kernel, term_event>>
    /\ UNCHANGED notTermVars

\* a plausible slip: the bytes of earlier reads are kept, and the command is
\* looked for at the end of everything read so far
TermReadOk_trailing_carried(t) ==
    /\ term_pc = "read"
    /\ t \in 1..min(available, ReadMax)
    /\ LET serial_buf == SubSeq(port_in, 1, t)
           is_cmd     == is_send_kernel_command(th.read_log \o serial_buf)
           t2         == IF is_cmd THEN t - min(t, 3) ELSE t
           shown      == SubSeq(serial_buf, 1, t2)
       IN  /\ port_in' = SubSeq(port_in, t + 1, Len(port_in))
           /\ send_kernel' = is_cmd
           /\ stdout' = stdout \o shown \o <<LineFeed>>
           /\ term_pc' = IF is_cmd THEN "after_loop" ELSE "bytes_to_read"
           /\ th' = [th EXCEPT !.read_log = @ \o serial_buf,
                               !.reads = 1,
                               !.chunk = serial_buf,
                               !.forwarded = shown]
    /\ UNCHANGED <<available, got_errors, term_event>>
    /\ UNCHANGED notTermVars

\* states.rs:129-164: read into a buffer of min(available, 4096) bytes; the
\* read returns t of them; look for the command at the end, strip it, write
\* the rest to stdout and end the line; leave the loop on a command
TermReadOk(t) ==
    /\ term_pc = "read"
    /\ t \in 1..min(available, ReadMax)
    /\ LET serial_buf == SubSeq(port_in, 1, t)
           is_cmd     == is_send_kernel_command(serial_buf)
           t2         == IF is_cmd THEN t - 3 ELSE t
           shown      == SubSeq(serial_buf, 1, t2)
       IN  /\ port_in' = SubSeq(port_in, t + 1, Len(port_in))
           /\ send_kernel' = is_cmd
           /\ stdout' = stdout \o shown \o <<LineFeed>>
           /\ term_pc' = IF is_cmd THEN "after_loop" ELSE "bytes_to_read"
           /\ th' = [th EXCEPT !.read_log = @ \o serial_buf,
                               !.reads = 1,
                               !.chunk = serial_buf,
                               !.forwarded = shown]
    /\ UNCHANGED <<available, got_errors, term_event>>
    /\ UNCHANGED notTermVars

\* states.rs:165-169: the read fails
TermReadErr ==
    /\ term_pc = "read"
    /\ got_errors' = TRUE
    /\ term_pc' = "after_loop"
    /\ th' = [th EXCEPT !.io_errors = @ + 1]
    /\ UNCHANGED <<port_in, available, stdout, send_kernel, term_event>>
    /\ UNCHANGED notTermVars

\* a plausible slip: Done is always reported without error
TermReturn_never_with_errors ==
    /\ term_pc = "after_loop"
    /\ term_event' = IF send_kernel THEN "SwitchToKernelSendMode"
                     ELSE "Done(with_errors: false)"
    /\ term_pc' = "returned"
    /\ UNCHANGED <<port_in, available, stdout, send_kernel, got_errors, th>>
    /\ UNCHANGED notTermVars

\* states.rs:183-193: the event run returns
TermReturn ==
    /\ term_pc = "after_loop"
    /\ term_event' = IF send_kernel THEN "SwitchToKernelSendMode"
                     ELSE IF got_errors THEN "Done(with_errors: true)"
                     ELSE "Done(with_errors: false)"
    /\ term_pc' = "returned"
    /\ UNCHANGED <<port_in, available, stdout, send_kernel, got_errors, th>>
    /\ UNCHANGED notTermVars

\* state_machine.rs:120-127: ProtocolStates::step, the TerminalMode arm
step_TerminalMode(event) ==
    CASE event = "SwitchToKernelSendMode"   -> "KernelSendMode"
      [] event = "Done(with_errors: true)"  -> "Done(with_error: true)"
      [] event = "Done(with_errors: false)" -> "Done(with_error: false)"
      [] OTHER                              -> "unreachable"

TermNext ==
    \/ \E b \in DeviceBytes : DeviceSend(b)
    \/ \E ok \in BOOLEAN : TermBytesToRead(ok)
    \/ \E t \in 1..MaxDeviceBytes : TermReadOk(t)
    \/ TermReadErr
    \/ TermReturn

InitTerm == TermInit /\ WaitIdle /\ KernIdle /\ MachIdle /\ BuildIdle

SpecTerm == InitTerm /\ [][TermNext]_vars

(***************************************************************************)
(* Properties of TerminalModeState::run, checked under SpecTerm.            *)
(***************************************************************************)
\* the maximal run of 0x03 bytes that ends the chunk has length exactly 3
ExactlyThreeTrailing(c) ==
    LET n == Len(c)
    IN  /\ n >= 3
        /\ c[n] = ETX /\ c[n - 1] = ETX /\ c[n - 2] = ETX
        /\ (n > 3 => c[n - 3] # ETX)

\* C7: a read chunk requests the switch to kernel-send if and only if its
\* maximal trailing run of 0x03 bytes has length exactly 3, and then exactly
\* those three bytes are kept out of the forwarded output; any other chunk
\* is forwarded whole.
C7_TriggerIffExactlyThree ==
    th.reads = 1 =>
        LET c == th.chunk
        IN  /\ send_kernel <=> ExactlyThreeTrailing(c)
            /\ th.forwarded = IF ExactlyThreeTrailing(c)
                              THEN SubSeq(c, 1, Len(c) - 3)
                              ELSE c

C7_Witness ==
    /\ term_event = "SwitchToKernelSendMode"
    /\ Len(th.chunk) = 5
    /\ th.chunk[1] = ETX
    /\ th.forwarded = SubSeq(th.chunk, 1, 2)

\* the bytes read so far without the stripped command
RelayedBytes ==
    IF send_kernel THEN SubSeq(th.read_log, 1, Len(th.read_log) - 3)
    ELSE th.read_log

\* C8: the byte stream emitted to the session output is exactly the bytes
\* read from the port, in order, minus the stripped trigger bytes: nothing
\* is added, dropped, altered or reordered.
C8_OutputIsWhatWasRead == stdout = RelayedBytes

\* the chunk read last held the trigger
TriggerDetected == th.reads = 1 /\ ExactlyThreeTrailing(th.chunk)

\* C13: TerminalMode's run ends in one of two ways: with the switch to
\* KernelSendMode if and only if a trigger was detected, otherwise with Done
\* whose with_error flag is true exactly when a bytes_to_read or a read
\* failed; the machine's step follows the event.
C13_TerminalEndsInSwitchOrDone ==
    term_pc = "returned" =>
        /\ term_event \in {"SwitchToKernelSendMode", "Done(with_errors: true)",
                           "Done(with_errors: false)"}
        /\ term_event = "SwitchToKernelSendMode" <=> TriggerDetected
        /\ term_event = "Done(with_errors: true)" <=>
               (~TriggerDetected /\ th.io_errors > 0)
        /\ step_TerminalMode(term_event) =
               IF TriggerDetected THEN "KernelSendMode"
               ELSE IF th.io_errors > 0 THEN "Done(with_error: true)"
               ELSE "Done(with_error: false)"

\* a chunk was relayed, then a read failed and the run ended with Done
C13_Witness ==
    /\ term_pc = "returned"
    /\ term_event = "Done(with_errors: true)"
    /\ th.reads = 1
    /\ th.io_errors = 1
    /\ step_TerminalMode(term_event) = "Done(with_error: true)"

(***************************************************************************)
(* KernelSendModeState::run (boot_protocol/states.rs:231-262) and           *)
(* send_kernel, write_kernel_size, write_kernel_image (utils/kernel.rs).    *)
(***************************************************************************)
\* image files of 0..SmallImageMax bytes, and one of BigImageLen bytes
SmallImageMax == 3
BigImageLen == 1026
\* a short read of the file, or a short write to the port, moves at most
\* this many bytes
MaxShort == 2
\* file.read returns less than it could at most this often during one attempt
MaxShortReads == 2
\* the device sends at most this many bytes during one attempt
MaxReplyBytes == 3
\* a chunk write times out at most this often during one attempt
MaxWriteTimeouts == 1
\* KernelSendMode calls send_kernel at most this often
MaxSendAttempts == 2

\* kernel.rs:139  let mut chunk: Vec<u8> = vec![0; 1024]
ChunkSize == 1024
\* kernel.rs:91   delay::Fixed::from_millis(1000).take(9)
RetryDelays == 9
\* kernel.rs:88   the reply the bootloader is expected to send: 'O' 'K'
ByteO == 79
ByteK == 75

ReplyBytes == {ByteO, ByteK}

\* the contents of an image file of n bytes
ImageData(n) == [i \in 1..n |-> (i * 3) % 256]

\* an open file: metadata().len() is a u64, kept as its upper 32 bits
\* (size_hi) and its lower 32 bits; of these, bit 31 is kept apart
\* (size_b31) and the 31 bits below it are the number `size`, as the
\* integers of the model checker end at 2^31 - 1; data is what read() can
\* deliver
ImageFile(hi, n, len) ==
    [size_hi |-> hi, size_b31 |-> 0, size |-> n, data |-> ImageData(len),
     pos |-> 0, exists |-> TRUE]

\* kernel.rs:61: the lower 31 bits of 0xffffffff
Low31Max == 2147483647

\* a file whose metadata gives the length 0xffffffff; its 4 GiB of contents
\* are not held here, read() finds the end of the file at once
MaxImage == [ImageFile(0, Low31Max, 0) EXCEPT !.size_b31 = 1]

\* the files settings.kernel_image may name: whole images, one that is cut
\* short after its metadata was read, and one too long for the header
Images ==
    {ImageFile(0, n, n) : n \in (0..SmallImageMax) \cup {BigImageLen}}
        \cup {ImageFile(0, 2, 1), ImageFile(1, 0, 0), MaxImage}

\* the image the user can pick in select_image_file_interactive
OtherImage == ImageFile(0, 2, 2)

\* a plausible slip: the length is sent most significant byte first
to_be_bytes(n) ==
    << (n \div 16777216) % 256, (n \div 65536) % 256, (n \div 256) % 256, n % 256 >>

\* kernel.rs:85: size.to_le_bytes()
to_le_bytes(n) ==
    << n % 256, (n \div 256) % 256, (n \div 65536) % 256, (n \div 16777216) % 256 >>

\* kernel.rs:71, 85: (size as u32).to_le_bytes() for the length of the file
\* f: the cast keeps the lower 32 bits, of which bit 31 is the top bit of
\* the last byte
size_to_le_bytes(f) ==
    LET bytes == to_le_bytes(f.size)
    IN  [bytes EXCEPT ![4] = @ + 128 * f.size_b31]

KernHistInit ==
    [ attempts |-> 0,     \* calls of send_kernel so far
      replies  |-> 0,     \* bytes the device sent during the current attempt
      timeouts |-> 0,     \* chunk writes that timed out during the current attempt
      chunks   |-> 0,     \* chunks written during the current attempt, counted to 2
      short_reads |-> 0,  \* reads of the current attempt that returned less than they could
      acked    |-> FALSE,  \* the current attempt has read a 2-byte reply
      ops      |-> <<>> ]  \* the kinds of call the current attempt made on the
                           \* port, in order, a run of equal calls noted once

\* the history after a call of the kind `op` on the port
PortOp(h, op) ==
    IF h.ops # <<>> /\ h.ops[Len(h.ops)] = op THEN h
    ELSE [h EXCEPT !.ops = Append(@, op)]

\* the state KernelSendMode is entered in: the port is open, its input
\* buffer may hold a stale byte
KernInit ==
    /\ image \in Images \cup {NoFile}
    /\ file = NoFile
    /\ k_in \in {<<>>, <<ByteK>>}
    /\ port_out = <<>>
    /\ ok_buf = <<0, 0>>
    /\ tries = 0
    /\ written = 0
    /\ chunk = <<>>
    /\ kern_pc = "call"
    /\ kern_event = "none"
    /\ kh = KernHistInit

\* states.rs:241-242: the loop calls send_kernel(&mut port, settings)
KernCall ==
    /\ kern_pc = "call"
    /\ kh.attempts < MaxSendAttempts
    /\ kern_pc' = "open"
    /\ file' = NoFile
    /\ port_out' = <<>>
    /\ ok_buf' = <<0, 0>>
    /\ tries' = 0
    /\ written' = 0
    /\ chunk' = <<>>
    /\ kh' = [KernHistInit EXCEPT !.attempts = kh.attempts + 1]
    /\ UNCHANGED <<image, k_in, kern_event>>
    /\ UNCHANGED notKernVars

\* kernel.rs:27-28: File::open(&image_path)
KernOpen ==
    /\ kern_pc = "open"
    /\ IF image.exists
       THEN file' = image /\ kern_pc' = "metadata"
       ELSE file' = file /\ kern_pc' = "select"
    /\ UNCHANGED <<image, k_in, port_out, ok_buf, tries, written, chunk,
                   kern_event, kh>>
    /\ UNCHANGED notKernVars

\* kernel.rs:32-55: one round of the interactive selection: nothing
\* selected, the cancel entry, a name that cannot be opened, or an image
SelectChoices == {"none", "cancel", "unopenable", "image"}

KernSelect(choice) ==
    /\ kern_pc = "select"
    /\ CASE choice = "cancel" -> file' = file /\ kern_pc' = "sent_ok"
         [] choice = "image"  -> file' = OtherImage /\ kern_pc' = "metadata"
         [] OTHER             -> file' = file /\ kern_pc' = "select"
    /\ UNCHANGED <<image, k_in, port_out, ok_buf, tries, written, chunk,
                   kern_event, kh>>
    /\ UNCHANGED notKernVars

\* a plausible slip: the check is size >= 0xffffffff
KernMetadata_rejects_max(md_ok) ==
    /\ kern_pc = "metadata"
    /\ kern_pc' = IF md_ok /\ ~(\/ file.size_hi > 0
                                \/ file.size_b31 = 1 /\ file.size = Low31Max)
                    THEN "clear" ELSE "sent_err"
    /\ UNCHANGED <<image, file, k_in, port_out, ok_buf, tries, written, chunk,
                   kern_event, kh>>
    /\ UNCHANGED notKernVars

\* kernel.rs:60-69: file.metadata()?.len() and the check size > 0xffffffff,
\* which holds when the upper 32 bits of the length are not all zero
KernMetadata(md_ok) ==
    /\ kern_pc = "metadata"
    /\ kern_pc' = IF md_ok /\ ~(file.size_hi > 0) THEN "clear" ELSE "sent_err"
    /\ UNCHANGED <<image, file, k_in, port_out, ok_buf, tries, written, chunk,
                   kern_event, kh>>
    /\ UNCHANGED notKernVars

\* kernel.rs:82: port.clear(ClearBuffer::Input)?
KernClear(clear_ok) ==
    /\ kern_pc = "clear"
    /\ IF clear_ok
       THEN k_in' = <<>> /\ kern_pc' = "write_size"
       ELSE k_in' = k_in /\ kern_pc' = "sent_err"
    /\ kh' = PortOp(kh, "clear")
    /\ UNCHANGED <<image, file, port_out, ok_buf, tries, written, chunk,
                   kern_event>>
    /\ UNCHANGED notKernVars

\* kernel.rs:71, 85-86: `size as u32` keeps the lower 32 bits;
\* port.write_all(&size.to_le_bytes())?
KernWriteSize(write_ok) ==
    /\ kern_pc = "write_size"
    /\ IF write_ok
       THEN /\ port_out' = port_out \o size_to_le_bytes(file)
            /\ tries' = 1
            /\ kern_pc' = "poll_ok"
       ELSE /\ kern_pc' = "sent_err"
            /\ UNCHANGED <<port_out, tries>>
    /\ kh' = PortOp(kh, "write_size")
    /\ UNCHANGED <<image, file, k_in, ok_buf, written, chunk, kern_event>>
    /\ UNCHANGED notKernVars


\* a plausible slip: the result of retry() is not looked at
KernPollOk_result_ignored(res) ==
    /\ kern_pc = "poll_ok"
    /\ res = "read_err" => Len(k_in) >= 2
    /\ IF res = "read_err"
       THEN /\ kern_pc' = "panicked"
            /\ kh' = PortOp(kh, "poll")
            /\ UNCHANGED <<ok_buf, k_in, tries>>
       ELSE IF res = "ok" /\ Len(k_in) >= 2
       THEN /\ ok_buf' = SubSeq(k_in, 1, 2)
            /\ k_in' = SubSeq(k_in, 3, Len(k_in))
            /\ kh' = [PortOp(kh, "poll") EXCEPT !.acked = TRUE]
            /\ kern_pc' = "image_loop"
            /\ UNCHANGED tries
       ELSE IF tries <= RetryDelays
       THEN /\ tries' = tries + 1
            /\ kh' = PortOp(kh, "poll")
            /\ UNCHANGED <<ok_buf, k_in, kern_pc>>
       ELSE /\ kern_pc' = "image_loop"
            /\ kh' = PortOp(kh, "poll")
            /\ UNCHANGED <<ok_buf, k_in, tries>>
    /\ UNCHANGED <<image, file, port_out, written, chunk, kern_event>>
    /\ UNCHANGED notKernVars

\* kernel.rs:90-107: one try of the retried closure. A try fails when
\* bytes_to_read fails or fewer than 2 bytes wait; retry sleeps and tries
\* again while the 9 delays last. With 2 bytes waiting they are read into
\* `ok` and the try returns Ok(2), whatever the bytes are.
PollResults == {"ok", "err", "read_err"}

KernPollOk(res) ==
    /\ kern_pc = "poll_ok"
    /\ res = "read_err" => Len(k_in) >= 2
    /\ IF res = "read_err"
       THEN \* kernel.rs:97: read_exact(..).unwrap()
            /\ kern_pc' = "panicked"
            /\ kh' = PortOp(kh, "poll")
            /\ UNCHANGED <<ok_buf, k_in, tries>>
       ELSE IF res = "ok" /\ Len(k_in) >= 2
       THEN /\ ok_buf' = SubSeq(k_in, 1, 2)
            /\ k_in' = SubSeq(k_in, 3, Len(k_in))
            /\ kh' = [PortOp(kh, "poll") EXCEPT !.acked = TRUE]
            /\ kern_pc' = "image_loop"
            /\ UNCHANGED tries
       ELSE IF tries <= RetryDelays
       THEN /\ tries' = tries + 1
            /\ kh' = PortOp(kh, "poll")
            /\ UNCHANGED <<ok_buf, k_in, kern_pc>>
       ELSE \* kernel.rs:122-129
            /\ kern_pc' = "sent_err"
            /\ kh' = PortOp(kh, "poll")
            /\ UNCHANGED <<ok_buf, k_in, tries>>
    /\ UNCHANGED <<image, file, port_out, written, chunk, kern_event>>
    /\ UNCHANGED notKernVars

\* the device puts one byte into the port's input buffer
DeviceReply(b) ==
    /\ kern_pc \in {"clear", "write_size", "poll_ok"}
    /\ kh.replies < MaxReplyBytes
    /\ k_in' = Append(k_in, b)
    /\ kh' = [kh EXCEPT !.replies = kh.replies + 1]
    /\ UNCHANGED <<image, file, port_out, ok_buf, tries, written, chunk,
                   kern_pc, kern_event>>
    /\ UNCHANGED notKernVars

\* the byte counts file.read(&mut chunk) may return with `remaining` bytes
\* left in the file: 0 at the end of file, else up to the chunk size
ReadSizes(remaining) ==
    IF remaining = 0 THEN {0}
    ELSE {n \in 1..min(ChunkSize, remaining) :
            \/ n = min(ChunkSize, remaining)
            \/ n <= MaxShort /\ kh.short_reads < MaxShortReads}

\* kernel.rs:146: while (written as u32) < size   (written stays far below
\* 2^32 for the files modelled here, so the cast does not change it)
KernImageLoop ==
    /\ kern_pc = "image_loop"
    /\ kern_pc' = IF file.size_b31 = 1 \/ written < file.size
                    THEN "read_file" ELSE "sent_ok"
    /\ UNCHANGED <<image, file, k_in, port_out, ok_buf, tries, written, chunk,
                   kern_event, kh>>
    /\ UNCHANGED notKernVars

\* kernel.rs:147: let bytes_in = file.read(&mut chunk)?
KernReadFile(read_ok) ==
    /\ kern_pc = "read_file"
    /\ IF read_ok
       THEN \E n \in ReadSizes(Len(file.data) - file.pos) :
              /\ chunk' = SubSeq(file.data, file.pos + 1, file.pos + n)
              /\ file' = [file EXCEPT !.pos = file.pos + n]
              /\ kh' = IF n < min(ChunkSize, Len(file.data) - file.pos)
                        THEN [kh EXCEPT !.short_reads = kh.short_reads + 1]
                        ELSE kh
              /\ kern_pc' = "write_chunk"
       ELSE /\ kern_pc' = "sent_err"
            /\ UNCHANGED <<chunk, file, kh>>
    /\ UNCHANGED <<image, k_in, port_out, ok_buf, tries, written, kern_event>>
    /\ UNCHANGED notKernVars

\* a plausible slip: the count is advanced before the result of the write
\* is looked at, so a chunk that timed out is counted
KernWriteChunk_timeout_counted(res) ==
    /\ kern_pc = "write_chunk"
    /\ CASE res = "ok" ->
              /\ port_out' = port_out \o chunk
              /\ written' = written + Len(chunk)
              /\ kh' = [PortOp(kh, "write_chunk") EXCEPT
                            !.chunks = min(kh.chunks + 1, 2)]
              /\ kern_pc' = "image_loop"
         [] res = "short" ->
              /\ Len(chunk) > 0
              /\ \E k \in 0..min(Len(chunk) - 1, MaxShort) :
                    port_out' = port_out \o SubSeq(chunk, 1, k)
              /\ kern_pc' = "panicked"
              /\ kh' = PortOp(kh, "write_chunk")
              /\ UNCHANGED written
         [] res = "timeout" ->
              /\ kh.timeouts < MaxWriteTimeouts
              /\ kh' = [PortOp(kh, "write_chunk") EXCEPT
                            !.timeouts = kh.timeouts + 1]
              /\ written' = written + Len(chunk)
              /\ UNCHANGED <<port_out, kern_pc>>
         [] OTHER ->
              /\ kern_pc' = "sent_err"
              /\ kh' = PortOp(kh, "write_chunk")
              /\ UNCHANGED <<port_out, written>>
    /\ UNCHANGED <<image, file, k_in, ok_buf, tries, chunk, kern_event>>
    /\ UNCHANGED notKernVars

\* kernel.rs:149-168: port.write(&chunk[..bytes_in]) until it does not time
\* out; assert_eq!(bytes_in, bytes_out) on a write that took fewer bytes
WriteResults == {"ok", "short", "timeout", "err"}

KernWriteChunk(res) ==
    /\ kern_pc = "write_chunk"
    /\ CASE res = "ok" ->
              /\ port_out' = port_out \o chunk
              /\ written' = written + Len(chunk)
              /\ kh' = [PortOp(kh, "write_chunk") EXCEPT
                            !.chunks = min(kh.chunks + 1, 2)]
              /\ kern_pc' = "image_loop"
         [] res = "short" ->
              /\ Len(chunk) > 0
              /\ \E k \in 0..min(Len(chunk) - 1, MaxShort) :
                    port_out' = port_out \o SubSeq(chunk, 1, k)
              /\ kern_pc' = "panicked"
              /\ kh' = PortOp(kh, "write_chunk")
              /\ UNCHANGED written
         [] res = "timeout" ->
              /\ kh.timeouts < MaxWriteTimeouts
              /\ kh' = [PortOp(kh, "write_chunk") EXCEPT
                            !.timeouts = kh.timeouts + 1]
              /\ UNCHANGED <<port_out, written, kern_pc>>
         [] OTHER ->
              /\ kern_pc' = "sent_err"
              /\ kh' = PortOp(kh, "write_chunk")
              /\ UNCHANGED <<port_out, written>>
    /\ UNCHANGED <<image, file, k_in, ok_buf, tries, chunk, kern_event>>
    /\ UNCHANGED notKernVars

\* states.rs:242-252: Ok(_) ends the loop, Err(_) prints and loops
KernLoopErr ==
    /\ kern_pc = "sent_err"
    /\ kern_pc' = "call"
    /\ UNCHANGED <<image, file, k_in, port_out, ok_buf, tries, written, chunk,
                   kern_event, kh>>
    /\ UNCHANGED notKernVars

\* states.rs:243-246, 255-261: the state finishes with SwitchToTerminalMode
KernSendModeState_run ==
    /\ kern_pc = "sent_ok"
    /\ kern_pc' = "returned"
    /\ kern_event' = "SwitchToTerminalMode"
    /\ UNCHANGED <<image, file, k_in, port_out, ok_buf, tries, written, chunk, kh>>
    /\ UNCHANGED notKernVars

KernNext ==
    \/ KernCall
    \/ KernOpen
    \/ \E choice \in SelectChoices : KernSelect(choice)
    \/ \E md_ok \in BOOLEAN : KernMetadata(md_ok)
    \/ \E clear_ok \in BOOLEAN : KernClear(clear_ok)
    \/ \E write_ok \in BOOLEAN : KernWriteSize(write_ok)
    \/ \E res \in PollResults : KernPollOk(res)
    \/ \E b \in ReplyBytes : DeviceReply(b)
    \/ KernImageLoop
    \/ \E read_ok \in BOOLEAN : KernReadFile(read_ok)
    \/ \E res \in WriteResults : KernWriteChunk(res)
    \/ KernLoopErr
    \/ KernSendModeState_run

InitKern == KernInit /\ WaitIdle /\ TermIdle /\ MachIdle /\ BuildIdle

SpecKernel == InitKern /\ [][KernNext]_vars


(***************************************************************************)
(* Properties of the kernel push.                                           *)
(***************************************************************************)
OK == <<ByteO, ByteK>>

\* send_kernel returned Ok after it opened an image
SentImage == kern_pc \in {"sent_ok", "returned"} /\ file.exists

\* the length a 4-byte little-endian header stands for
HeaderLength(s) == s[1] + 256 * s[2] + 65536 * s[3] + 16777216 * s[4]

\* C9: when send_kernel succeeds for an image of L bytes on a port that
\* answered the header with OK, the bytes the port took during that call are
\* the 4-byte little-endian encoding of L followed by exactly the L bytes of
\* the image, however the file was read in pieces and however often a write
\* timed out.
C9_StreamIsHeaderThenImage ==
    (SentImage /\ ok_buf = OK) =>
        /\ Len(port_out) = 4 + file.size
        /\ \A i \in 1..4 : port_out[i] \in 0..255
        /\ HeaderLength(port_out) = file.size
        /\ SubSeq(port_out, 5, Len(port_out)) = file.data

\* an image longer than one chunk went out after OK, with a short read of
\* the file and a write that timed out on the way
C9_Witness ==
    /\ kern_pc = "returned"
    /\ file.exists
    /\ file.size = BigImageLen
    /\ ok_buf = OK
    /\ kh.chunks >= 2
    /\ kh.short_reads > 0
    /\ kh.timeouts > 0

\* C10: image bytes go to the port only after the two bytes read in reply to
\* the header were 'O','K'; with any other 2-byte reply the attempt does not
\* get to the image.
C10_ImageOnlyAfterOK ==
    (kern_pc \in {"image_loop", "read_file", "write_chunk"} \/ Len(port_out) > 4)
        => ok_buf = OK

\* C11: an attempt whose polls never find a 2-byte reply polls at most
\* RetryDelays + 1 times, fails when it gives up at the last of them (the
\* state then loops to the next send_kernel call), and the port has taken
\* the 4-byte header and no image byte.
C11_NoReplyFailsAfterBoundedPolls ==
    /\ kern_pc = "poll_ok" => tries \in 1..(RetryDelays + 1)
    /\ (tries >= 1 /\ ~kh.acked) =>
          /\ kern_pc \in {"poll_ok", "sent_err", "call", "panicked"}
          /\ port_out = size_to_le_bytes(file)
          /\ kern_pc \in {"sent_err", "call"} => tries = RetryDelays + 1

\* the device stayed silent and the attempt for the big image was given up
C11_Witness ==
    /\ kern_pc = "sent_err"
    /\ file.size = BigImageLen
    /\ kh.replies = 0
    /\ ~kh.acked
    /\ tries = RetryDelays + 1
    /\ port_out = to_le_bytes(BigImageLen)

(***************************************************************************)
(* The two state machines: the Device Manager (boot_server) and, run       *)
(* inside its Service state, the Boot Protocol (boot_protocol).             *)
(***************************************************************************)
\* the manager enters Service at most this often
MaxSessions == 2
\* the user declines the port selection at most this often
MaxDeclines == 1
\* the session switches from TerminalMode to KernelSendMode at most this often
MaxSwitches == 1

\* ports.rs:219   delay::Fixed::from_millis(1000).take(4)
OpenDelays == 4

\* Option<T>
None == [some |-> FALSE, val |-> <<>>]
Some(v) == [some |-> TRUE, val |-> v]

\* settings.rs:16-40: struct Settings
Settings(path, baud_rate, kernel_image) ==
    [ path |-> path, baud_rate |-> baud_rate, data_bits |-> "Eight",
      flow_control |-> "None", parity |-> "None", stop_bits |-> "One",
      kernel_image |-> kernel_image ]

\* the settings bootcom may be started with
StartSettings ==
    { Settings(p, b, k) :
        p \in {None, Some(Path), Some(<<ChSlash, ChU, ChOne>>)},
        b \in {230400, 115200},
        k \in {None, Some(<<ChU>>)} }

\* ports.rs:357: x.split(':').next().unwrap(), the text before the first ':'
RECURSIVE split_colon_next(_)
split_colon_next(s) ==
    IF s = <<>> THEN <<>>
    ELSE IF Head(s) = ChColon THEN <<>>
    ELSE <<Head(s)>> \o split_colon_next(Tail(s))

\* a plausible slip: the listed name is returned with its description
select_port_interactive_unstripped(ports, selection) ==
    IF selection = 0 THEN None ELSE Some(ports[selection])

\* ports.rs:339-358: select_port_interactive; selection 0 stands for the
\* user leaving the menu without a choice (Ok(None))
select_port_interactive(ports, selection) ==
    IF selection = 0 THEN None ELSE Some(split_colon_next(ports[selection]))

\* boot_server/events.rs:32-137: an Event with the data it carries
DMEvent(type, settings, with_error) ==
    [type |-> type, settings |-> settings, with_error |-> with_error]

\* state_machine.rs:223-291: the state an event converts into (From impls);
\* only Done has the two flags, the other states carry them as FALSE here
DMFrom(state, event) ==
    [ state       |-> state,
      settings    |-> event.settings,
      with_error  |-> IF state = "Done" THEN event.with_error ELSE FALSE,
      should_exit |-> state = "Done" /\ event.type = "Exit" ]

\* a plausible slip: Init looks at nothing and always waits
dm_InitState_run_always_wait(settings) ==
    DMEvent("WaitForPort", settings, FALSE)

\* boot_server/states.rs:57-67: InitState::run
dm_InitState_run(settings) ==
    IF settings.path.some THEN DMEvent("WaitForPort", settings, FALSE)
    ELSE DMEvent("SelectPort", settings, FALSE)

\* a plausible slip: the device picked is not stored in the settings
SelectPortState_run_path_not_set(settings, selection) ==
    IF selection.some
    THEN DMEvent("PortReady", settings, FALSE)
    ELSE DMEvent("SelectPort", settings, FALSE)

\* boot_server/states.rs:98-116: SelectPortState::run, given what
\* select_port() returned
SelectPortState_run(settings, selection) ==
    IF selection.some
    THEN DMEvent("PortReady", [settings EXCEPT !.path = Some(selection.val)], FALSE)
    ELSE DMEvent("SelectPort", settings, FALSE)

\* a plausible slip: the two arms of the match on the status are exchanged
ServiceState_run_swapped(settings, status) ==
    IF status = 0 THEN DMEvent("PortError", settings, FALSE)
    ELSE DMEvent("Done", settings, FALSE)

\* boot_server/states.rs:124-140: ServiceState::run, given what bpsm.run()
\* returned
ServiceState_run(settings, status) ==
    IF status = 0 THEN DMEvent("Done", settings, FALSE)
    ELSE DMEvent("PortError", settings, FALSE)

\* boot_server/states.rs:152-161: DoneState::run
dm_DoneState_run(settings, with_error) == DMEvent("Exit", settings, with_error)

\* state_machine.rs:176-183: DeviceManagerStates::step, the Init arm
step_Init(event) ==
    CASE event = "WaitForPort" -> "WaitForPort"
      [] event = "SelectPort"  -> "SelectPort"
      [] OTHER                 -> "unreachable"

\* state_machine.rs:192-199: the SelectPort arm
step_SelectPort(event) ==
    CASE event = "SelectPort" -> "SelectPort"
      [] event = "PortReady"  -> "Service"
      [] OTHER                -> "unreachable"

\* state_machine.rs:200-207: the Service arm
step_Service(event) ==
    CASE event = "Done"      -> "Done"
      [] event = "PortError" -> "WaitForPort"
      [] OTHER               -> "unreachable"

\* state_machine.rs:208-214: the Done arm
step_Done(event) ==
    CASE event = "Exit" -> "Done"
      [] OTHER          -> "unreachable"

\* boot_protocol/events.rs: an Event with the data it carries; port 0 stands
\* for an event without a port
BPEvent(type, settings, port, with_error) ==
    [type |-> type, settings |-> settings, port |-> port, with_error |-> with_error]

\* boot_protocol/state_machine.rs:151-202: the state an event converts into
BPFrom(state, event) ==
    [ state       |-> state,
      settings    |-> event.settings,
      port        |-> IF state \in {"TerminalMode", "KernelSendMode"}
                      THEN event.port ELSE 0,
      with_error  |-> IF state = "Done" THEN event.with_error ELSE FALSE,
      should_exit |-> state = "Done" /\ event.type = "Exit" ]

\* boot_protocol/state_machine.rs:53-58, 86-93: factory(settings)
factory(settings) == BPFrom("Init", BPEvent("none", settings, 0, FALSE))

\* a plausible slip: a port that cannot be opened ends the session without
\* error
bp_InitState_run_done_clean(settings, port) ==
    IF port # 0 THEN BPEvent("SwitchToTerminalMode", settings, port, FALSE)
    ELSE BPEvent("Done", settings, 0, FALSE)

\* boot_protocol/states.rs:62-77: InitState::run, given what
\* open_and_setup_port returned (port 0 stands for Err)
bp_InitState_run(settings, port) ==
    IF port # 0 THEN BPEvent("SwitchToTerminalMode", settings, port, FALSE)
    ELSE BPEvent("Done", settings, 0, TRUE)

\* the events TerminalModeState::run can return (SpecTerm): its loop is left
\* on a trigger or on an I/O error only
TerminalEvents == {"SwitchToKernelSendMode", "Done(with_errors: true)"}

\* a plausible slip: the event to KernelSendMode is built without the image
TerminalModeState_run_image_forgotten(settings, port, event) ==
    IF event = "SwitchToKernelSendMode"
    THEN BPEvent("SwitchToKernelSendMode",
                 [settings EXCEPT !.kernel_image = None], port, FALSE)
    ELSE BPEvent("Done", settings, 0, event = "Done(with_errors: true)")

\* boot_protocol/states.rs:183-193: the event TerminalModeState::run returns
TerminalModeState_run(settings, port, event) ==
    IF event = "SwitchToKernelSendMode"
    THEN BPEvent("SwitchToKernelSendMode", settings, port, FALSE)
    ELSE BPEvent("Done", settings, 0, event = "Done(with_errors: true)")

\* a plausible slip: a failed send_kernel ends the session
KernelSendModeState_run_gives_up(settings, port, result) ==
    IF result = "ok" THEN BPEvent("SwitchToTerminalMode", settings, port, FALSE)
    ELSE BPEvent("Done", settings, 0, TRUE)

\* boot_protocol/states.rs:241-259: one round of the loop in
\* KernelSendModeState::run, given what send_kernel returned: Ok leaves the
\* loop and returns the event, Err goes round again ("loop")
KernelSendModeState_run(settings, port, result) ==
    IF result = "ok" THEN BPEvent("SwitchToTerminalMode", settings, port, FALSE)
    ELSE BPEvent("loop", settings, port, FALSE)

\* boot_protocol/states.rs:295-313: DoneState::run
bp_DoneState_run(settings, with_error) == BPEvent("Exit", settings, 0, with_error)

\* boot_protocol/state_machine.rs:112-119: ProtocolStates::step, the Init arm
bp_step_Init(event) ==
    CASE event = "SwitchToTerminalMode" -> "TerminalMode"
      [] event = "Done"                 -> "Done"
      [] OTHER                          -> "unreachable"

\* a plausible slip: the arm for SwitchToTerminalMode is missing
step_KernelSendMode_no_way_back(event) ==
    CASE event = "Done" -> "Done"
      [] OTHER          -> "unreachable"

\* boot_protocol/state_machine.rs:135-142: the KernelSendMode arm
step_KernelSendMode(event) ==
    CASE event = "SwitchToTerminalMode" -> "TerminalMode"
      [] event = "Done"                 -> "Done"
      [] OTHER                          -> "unreachable"

\* boot_protocol/state_machine.rs:128-134: the Done arm
bp_step_Done(event) ==
    CASE event = "Exit" -> "Done"
      [] OTHER          -> "unreachable"

MachHistInit ==
    [ sessions    |-> 0,       \* entries of the manager into Service
      declines    |-> 0,       \* port selections the user declined
      switches    |-> 0,       \* switches to KernelSendMode in this session
      attempts    |-> 0,       \* send_kernel calls in this KernelSendMode
      failed      |-> 0,       \* of which failed
      kernel_port |-> 0,       \* the port KernelSendMode was entered with
      open_tries  |-> 0,       \* builder.open() calls in this session
      open_fails  |-> 0,       \* of which failed
      setup       |-> "none",  \* how configuring the opened port went
      wait        |-> "none",  \* how the last wait_for_port ended
      chosen      |-> <<>>,    \* the list entry the user picked last
      dm_reports  |-> 0,       \* runs of the manager's DoneState
      bp_reports  |-> 0 ]      \* runs of the protocol's DoneState

\* SingletonReader::run is called on the manager in its Init state
MachInit ==
    /\ dm \in {DMFrom("Init", DMEvent("none", s, FALSE)) : s \in StartSettings}
    /\ dm_pc = "step"
    /\ dm_status = -1
    /\ bp = <<>>
    /\ bp_pc = "idle"
    /\ bp_status = -1
    /\ open_index = 0
    /\ ports_opened = 0
    /\ open_ports = {}
    /\ mh = MachHistInit

(***************************************************************************)
(* The Device Manager: SingletonReader::run (state_machine.rs:81-91) and    *)
(* DeviceManagerStates::step (state_machine.rs:174-216).                    *)
(***************************************************************************)
\* the state the step returns, or the panic of unreachable!()
\* (a panic unwinds and drops every port); kept: the ports still open after
\* the state's run
DMGo(next, event, kept) ==
    IF next = "unreachable"
    THEN dm_pc' = "unreachable" /\ dm' = dm /\ open_ports' = {}
    ELSE dm_pc' = "check" /\ dm' = DMFrom(next, event) /\ open_ports' = kept

\* state_machine.rs:176-183 with states.rs:57-67
DMStepInit ==
    /\ dm_pc = "step"
    /\ dm.state = "Init"
    /\ LET event == dm_InitState_run(dm.settings)
       IN  DMGo(step_Init(event.type), event, open_ports)
    /\ UNCHANGED <<dm_status, bp, bp_pc, bp_status, open_index, ports_opened, mh>>
    /\ UNCHANGED notMachVars

\* the ways wait_for_port can end (SpecWait): it returns false, it returns
\* true, a send on a channel panics, or Ctrl+C ends the process
WaitOutcomes == {"ready", "cancelled", "panicked", "killed"}

\* state_machine.rs:184-191 with states.rs:75-90
DMStepWaitForPort(outcome) ==
    /\ dm_pc = "step"
    /\ dm.state = "WaitForPort"
    /\ IF ~dm.settings.path.some               \* settings.path.as_ref().unwrap()
       THEN dm_pc' = "panicked" /\ open_ports' = {} /\ UNCHANGED <<dm, mh>>
       ELSE /\ mh' = [mh EXCEPT !.wait = outcome]
            /\ IF outcome \in {"panicked", "killed"}
               THEN dm_pc' = outcome /\ dm' = dm /\ open_ports' = {}
               ELSE LET type == WaitForPortState_run(outcome = "cancelled")
                    IN  DMGo(step_WaitForPort(type),
                             DMEvent(type, dm.settings, FALSE), open_ports)
    /\ UNCHANGED <<dm_status, bp, bp_pc, bp_status, open_index, ports_opened>>
    /\ UNCHANGED notMachVars

\* state_machine.rs:192-199 with states.rs:98-116 and ports.rs:20-80:
\* select_port enumerates until the list is not empty (att: the devices then
\* plugged in) and shows it; selection is the entry picked, 0 for none
DMStepSelectPort(att, selection) ==
    /\ dm_pc = "step"
    /\ dm.state = "SelectPort"
    /\ LET found == enumerate_usb_serial_ports(att, TRUE)
       IN  /\ found # <<>>
           /\ selection \in 0..Len(found)
           /\ selection = 0 => mh.declines < MaxDeclines
           /\ LET event == SelectPortState_run(dm.settings,
                              select_port_interactive(found, selection))
              IN  DMGo(step_SelectPort(event.type), event, open_ports)
           /\ mh' = IF selection = 0
                    THEN [mh EXCEPT !.declines = @ + 1, !.chosen = <<>>]
                    ELSE [mh EXCEPT !.chosen = found[selection]]
    /\ UNCHANGED <<dm_status, bp, bp_pc, bp_status, open_index, ports_opened>>
    /\ UNCHANGED notMachVars

\* states.rs:124-128: ServiceState::run creates the protocol machine and
\* calls its run
DMEnterService ==
    /\ dm_pc = "step"
    /\ dm.state = "Service"
    /\ mh.sessions < MaxSessions
    /\ dm_pc' = "service"
    /\ bp' = factory(dm.settings)
    /\ bp_pc' = "step"
    /\ bp_status' = -1
    /\ open_index' = 0
    /\ mh' = [mh EXCEPT !.sessions = @ + 1, !.switches = 0, !.attempts = 0,
                        !.failed = 0, !.kernel_port = 0, !.open_tries = 0,
                        !.open_fails = 0, !.setup = "none", !.bp_reports = 0]
    /\ UNCHANGED <<dm, dm_status, ports_opened, open_ports>>
    /\ UNCHANGED notMachVars

\* state_machine.rs:200-207 with states.rs:128-139: bpsm.run() has returned;
\* bpsm goes out of scope, and with it whatever its state holds
DMServiceReturn ==
    /\ dm_pc = "service"
    /\ bp_pc = "returned"
    /\ LET event == ServiceState_run(dm.settings, bp_status)
       IN  DMGo(step_Service(event.type), event, open_ports \ {bp.port})
    /\ bp_pc' = "dropped"
    /\ UNCHANGED <<dm_status, bp, bp_status, open_index, ports_opened, mh>>
    /\ UNCHANGED notMachVars

\* state_machine.rs:208-214 with states.rs:152-161
DMStepDone ==
    /\ dm_pc = "step"
    /\ dm.state = "Done"
    /\ LET event == dm_DoneState_run(dm.settings, dm.with_error)
       IN  DMGo(step_Done(event.type), event, open_ports)
    /\ mh' = [mh EXCEPT !.dm_reports = @ + 1]
    /\ UNCHANGED <<dm_status, bp, bp_pc, bp_status, open_index, ports_opened>>
    /\ UNCHANGED notMachVars

\* a plausible slip: the loop ends as soon as the state is Done
DMRunCheck_any_done ==
    /\ dm_pc = "check"
    /\ IF dm.state = "Done"
       THEN /\ dm_status' = IF dm.with_error THEN 1 ELSE 0
            /\ dm_pc' = "returned"
       ELSE /\ dm_pc' = "step"
            /\ UNCHANGED dm_status
    /\ UNCHANGED <<dm, bp, bp_pc, bp_status, open_index, ports_opened, open_ports, mh>>
    /\ UNCHANGED notMachVars

\* state_machine.rs:85-89: the test the run loop makes after every step
DMRunCheck ==
    /\ dm_pc = "check"
    /\ IF dm.state = "Done" /\ dm.should_exit
       THEN /\ dm_status' = IF dm.with_error THEN 1 ELSE 0
            /\ dm_pc' = "returned"
       ELSE /\ dm_pc' = "step"
            /\ UNCHANGED dm_status
    /\ UNCHANGED <<dm, bp, bp_pc, bp_status, open_index, ports_opened, open_ports, mh>>
    /\ UNCHANGED notMachVars

(***************************************************************************)
(* The Boot Protocol: SerialBootProtocol::run (state_machine.rs:35-47) and  *)
(* ProtocolStates::step (state_machine.rs:110-144).  A panic in it unwinds  *)
(* through ServiceState::run and the manager's run.                         *)
(***************************************************************************)
BpPanic ==
    bp_pc' = "panicked" /\ dm_pc' = "panicked" /\ bp' = bp /\ open_ports' = {}

\* the panic of an unreachable!() of the protocol machine
BpUnreachable ==
    bp_pc' = "unreachable" /\ dm_pc' = "panicked" /\ bp' = bp /\ open_ports' = {}

\* the state the step returns, or the panic of unreachable!()
\* kept: the ports still open after the state's run
BpGo(next, event, kept) ==
    IF next = "unreachable"
    THEN BpUnreachable
    ELSE /\ bp_pc' = "check" /\ bp' = BPFrom(next, event) /\ dm_pc' = dm_pc
         /\ open_ports' = kept

\* states.rs:58-62: InitState::run starts: assert_ne!(settings.path, None),
\* then open_and_setup_port begins its first try
BpInitRun ==
    /\ bp_pc = "step"
    /\ bp.state = "Init"
    /\ IF ~bp.settings.path.some
       THEN BpPanic /\ UNCHANGED open_index
       ELSE bp_pc' = "open" /\ open_index' = 1 /\ UNCHANGED <<bp, dm_pc, open_ports>>
    /\ UNCHANGED <<dm, dm_status, bp_status, ports_opened, mh>>
    /\ UNCHANGED notMachVars

\* a plausible slip: the try that follows the last delay is not made
BpOpenTry_one_try_less(open_ok) ==
    /\ bp_pc = "open"
    /\ mh' = [mh EXCEPT !.open_tries = @ + 1,
                        !.open_fails = IF open_ok THEN @ ELSE @ + 1]
    /\ IF open_ok
       THEN /\ ports_opened' = ports_opened + 1
            /\ open_ports' = open_ports \union {ports_opened + 1}
            /\ bp_pc' = "setup"
            /\ UNCHANGED <<bp, dm_pc, open_index>>
       ELSE IF open_index < OpenDelays
       THEN /\ open_index' = open_index + 1
            /\ UNCHANGED <<bp, bp_pc, dm_pc, ports_opened, open_ports>>
       ELSE /\ LET event == bp_InitState_run(bp.settings, 0)
               IN  BpGo(bp_step_Init(event.type), event, open_ports)
            /\ UNCHANGED <<open_index, ports_opened>>
    /\ UNCHANGED <<dm, dm_status, bp_status>>
    /\ UNCHANGED notMachVars

\* ports.rs:218-231, 270-289 with states.rs:62-77: one try of builder.open();
\* a failed try is followed by the next while the 4 delays last, after that
\* open_and_setup_port returns Err and Init ends with Done
BpOpenTry(open_ok) ==
    /\ bp_pc = "open"
    /\ mh' = [mh EXCEPT !.open_tries = @ + 1,
                        !.open_fails = IF open_ok THEN @ ELSE @ + 1]
    /\ IF open_ok
       THEN /\ ports_opened' = ports_opened + 1
            /\ open_ports' = open_ports \union {ports_opened + 1}
            /\ bp_pc' = "setup"
            /\ UNCHANGED <<bp, dm_pc, open_index>>
       ELSE IF open_index <= OpenDelays
       THEN /\ open_index' = open_index + 1
            /\ UNCHANGED <<bp, bp_pc, dm_pc, ports_opened, open_ports>>
       ELSE /\ LET event == bp_InitState_run(bp.settings, 0)
               IN  BpGo(bp_step_Init(event.type), event, open_ports)
            /\ UNCHANGED <<open_index, ports_opened>>
    /\ UNCHANGED <<dm, dm_status, bp_status>>
    /\ UNCHANGED notMachVars

\* how configuring the opened port can go: every setting is applied and read
\* back as requested; a set_* call fails; reading a value back fails; the
\* port reports a value different from the requested one
SetupOutcomes == {"ok", "set_err", "query_err", "mismatch"}

\* a plausible slip: the port a set_* call failed on is left open
BpSetup_port_left_open(outcome) ==
    /\ bp_pc = "setup"
    /\ mh' = [mh EXCEPT !.setup = outcome]
    /\ CASE outcome = "ok" ->
              LET event == bp_InitState_run(bp.settings, ports_opened)
              IN  BpGo(bp_step_Init(event.type), event, open_ports)
         [] outcome = "set_err" ->
              LET event == bp_InitState_run(bp.settings, 0)
              IN  BpGo(bp_step_Init(event.type), event, open_ports)
         [] OTHER -> BpPanic
    /\ UNCHANGED <<dm, dm_status, bp_status, open_index, ports_opened>>
    /\ UNCHANGED notMachVars

\* ports.rs:232-269 with states.rs:62-77: the settings are applied with `?`,
\* read back with unwrap() and compared with assert_eq!; when the function
\* returns Err its local `port` is dropped
BpSetup(outcome) ==
    /\ bp_pc = "setup"
    /\ mh' = [mh EXCEPT !.setup = outcome]
    /\ CASE outcome = "ok" ->
              LET event == bp_InitState_run(bp.settings, ports_opened)
              IN  BpGo(bp_step_Init(event.type), event, open_ports)
         [] outcome = "set_err" ->
              LET event == bp_InitState_run(bp.settings, 0)
              IN  BpGo(bp_step_Init(event.type), event,
                       open_ports \ {ports_opened})
         [] OTHER -> BpPanic
    /\ UNCHANGED <<dm, dm_status, bp_status, open_index, ports_opened>>
    /\ UNCHANGED notMachVars

\* a plausible slip: the port outlives the TerminalMode that ends with Done
BpStepTerminal_port_outlives(term_ev) ==
    /\ bp_pc = "step"
    /\ bp.state = "TerminalMode"
    /\ term_ev = "SwitchToKernelSendMode" => mh.switches < MaxSwitches
    /\ IF bp.port = 0
       THEN BpUnreachable /\ UNCHANGED mh
       ELSE /\ LET event == TerminalModeState_run(bp.settings, bp.port, term_ev)
                   next  == step_TerminalMode(term_ev)
               IN  BpGo(IF next = "KernelSendMode" THEN next
                        ELSE IF next = "unreachable" THEN next ELSE "Done",
                        event, open_ports)
            /\ mh' = IF term_ev = "SwitchToKernelSendMode"
                     THEN [mh EXCEPT !.switches = @ + 1, !.attempts = 0,
                                     !.failed = 0, !.kernel_port = bp.port]
                     ELSE mh
    /\ UNCHANGED <<dm, dm_status, bp_status, open_index, ports_opened>>
    /\ UNCHANGED notMachVars

\* state_machine.rs:120-127 with states.rs:108-198: port.take(), the relay
\* loop, and the event it ends with; the port taken is moved into the
\* SwitchToKernelSendMode event, and dropped when run returns Done
BpStepTerminal(term_ev) ==
    /\ bp_pc = "step"
    /\ bp.state = "TerminalMode"
    /\ term_ev = "SwitchToKernelSendMode" => mh.switches < MaxSwitches
    /\ IF bp.port = 0                                   \* unreachable!()
       THEN BpUnreachable /\ UNCHANGED mh
       ELSE /\ LET event == TerminalModeState_run(bp.settings, bp.port, term_ev)
                   next  == step_TerminalMode(term_ev)
               IN  BpGo(IF next = "KernelSendMode" THEN next
                        ELSE IF next = "unreachable" THEN next ELSE "Done",
                        event,
                        IF term_ev = "SwitchToKernelSendMode" THEN open_ports
                        ELSE open_ports \ {bp.port})
            /\ mh' = IF term_ev = "SwitchToKernelSendMode"
                     THEN [mh EXCEPT !.switches = @ + 1, !.attempts = 0,
                                     !.failed = 0, !.kernel_port = bp.port]
                     ELSE mh
    /\ UNCHANGED <<dm, dm_status, bp_status, open_index, ports_opened>>
    /\ UNCHANGED notMachVars

\* what a call of send_kernel can end in (SpecKernel): Ok, Err, or a panic
SendResults == {"ok", "err", "panic"}

\* state_machine.rs:135-142 with states.rs:231-262: one round of the loop
\* around send_kernel
BpKernelAttempt(result) ==
    /\ bp_pc = "step"
    /\ bp.state = "KernelSendMode"
    /\ result = "err" => mh.failed < MaxSendAttempts
    /\ mh' = [mh EXCEPT !.attempts = @ + 1,
                        !.failed = IF result = "err" THEN @ + 1 ELSE @]
    /\ IF bp.port = 0                                   \* unreachable!()
       THEN BpUnreachable
       ELSE IF result = "panic"
       THEN BpPanic
       ELSE LET event == KernelSendModeState_run(bp.settings, bp.port, result)
            IN  IF event.type = "loop"
                THEN UNCHANGED <<bp, bp_pc, dm_pc, open_ports>>
                ELSE BpGo(step_KernelSendMode(event.type), event, open_ports)
    /\ UNCHANGED <<dm, dm_status, bp_status, open_index, ports_opened>>
    /\ UNCHANGED notMachVars

\* state_machine.rs:128-134 with states.rs:295-313
BpStepDone ==
    /\ bp_pc = "step"
    /\ bp.state = "Done"
    /\ LET event == bp_DoneState_run(bp.settings, bp.with_error)
       IN  BpGo(bp_step_Done(event.type), event, open_ports)
    /\ mh' = [mh EXCEPT !.bp_reports = @ + 1]
    /\ UNCHANGED <<dm, dm_status, bp_status, open_index, ports_opened>>
    /\ UNCHANGED notMachVars

\* state_machine.rs:38-45: the test the run loop makes after every step
BpRunCheck ==
    /\ bp_pc = "check"
    /\ IF bp.state = "Done" /\ bp.should_exit
       THEN /\ bp_status' = IF bp.with_error THEN 1 ELSE 0
            /\ bp_pc' = "returned"
       ELSE /\ bp_pc' = "step"
            /\ UNCHANGED bp_status
    /\ UNCHANGED <<dm, dm_pc, dm_status, bp, open_index, ports_opened, open_ports, mh>>
    /\ UNCHANGED notMachVars

MgrNext ==
    \/ DMStepInit
    \/ \E outcome \in WaitOutcomes : DMStepWaitForPort(outcome)
    \/ \E att \in SUBSET (1..Len(SysPorts)) :
          \E selection \in 0..Len(SysPorts) : DMStepSelectPort(att, selection)
    \/ DMEnterService
    \/ DMServiceReturn
    \/ DMRunCheck
    \/ BpInitRun
    \/ \E open_ok \in BOOLEAN : BpOpenTry(open_ok)
    \/ \E outcome \in SetupOutcomes : BpSetup(outcome)
    \/ \E term_ev \in TerminalEvents : BpStepTerminal(term_ev)
    \/ \E result \in SendResults : BpKernelAttempt(result)
    \/ BpStepDone
    \/ BpRunCheck

InitMgr == MachInit /\ WaitIdle /\ TermIdle /\ KernIdle /\ BuildIdle

SpecMgr == InitMgr /\ [][MgrNext]_vars

(***************************************************************************)
(* Properties of the two machines.                                          *)
(***************************************************************************)
\* KernelSendMode is about to call send_kernel
InKernelLoop == bp_pc = "step" /\ bp.state = "KernelSendMode"

InitStepEnds == bp_pc \in {"open", "setup"} /\ bp_pc' = "check"

\* C14 as stated: Init tries the open a bounded number of times; when a try
\* succeeds it goes to TerminalMode holding the opened port, when every try
\* fails it goes to Done with with_error = true, and it goes nowhere else.
C14_OpenSucceedsThenTerminal ==
    [][ InitStepEnds =>
          /\ mh'.open_tries <= OpenDelays + 1
          /\ bp'.state \in {"TerminalMode", "Done"}
          /\ mh'.open_fails < mh'.open_tries =>
                bp'.state = "TerminalMode" /\ bp'.port = ports_opened'
          /\ mh'.open_fails = mh'.open_tries =>
                bp'.state = "Done" /\ bp'.with_error ]_vars

\* C14, amended: Init makes at most OpenDelays + 1 tries to open the port; it
\* goes to TerminalMode, holding the opened port, exactly when a try
\* succeeded and every setting was then applied and read back as requested;
\* it goes to Done, always with with_error = true and without a port, when
\* all OpenDelays + 1 tries failed or when applying a setting failed; it
\* goes nowhere else.
C14_OpenAndSetupThenTerminal ==
    [][ InitStepEnds =>
          /\ mh'.open_tries <= OpenDelays + 1
          /\ bp'.state \in {"TerminalMode", "Done"}
          /\ bp'.state = "TerminalMode" <=>
                (mh'.open_fails < mh'.open_tries /\ mh'.setup = "ok")
          /\ bp'.state = "TerminalMode" =>
                bp'.port = ports_opened' /\ bp'.port # 0
          /\ bp'.state = "Done" =>
                /\ bp'.with_error /\ ~bp'.should_exit /\ bp'.port = 0
                /\ \/ mh'.open_fails = OpenDelays + 1 /\ mh'.open_tries = OpenDelays + 1
                   \/ mh'.open_fails < mh'.open_tries /\ mh'.setup = "set_err"
          /\ bp'.settings = bp.settings ]_vars

\* the open succeeded at the last try allowed and TerminalMode holds the port
C14_Witness ==
    /\ bp_pc = "check"
    /\ bp.state = "TerminalMode"
    /\ mh.switches = 0
    /\ mh.open_tries = OpenDelays + 1
    /\ mh.open_fails = OpenDelays
    /\ mh.setup = "ok"
    /\ bp.port = ports_opened

\* in the current session the port could not be opened, or configuring the
\* opened port did not go through
InitFailed ==
    /\ mh.sessions > 0
    /\ \/ mh.open_fails = OpenDelays + 1
       \/ mh.setup \in {"set_err", "query_err", "mismatch"}

\* C15: a failure to open or to configure the port in the protocol's Init is
\* never fatal to the process: whether the open failed, applying a setting
\* failed, or the port reports a configuration other than the requested one,
\* the session ends as Done with error (and the manager then goes to
\* WaitForPort).
C15_InitFailureNeverFatal ==
    InitFailed =>
        /\ bp_pc # "panicked"
        /\ bp_pc \in {"step", "check", "returned"} =>
              bp.state = "Done" /\ bp.with_error
        /\ bp_pc = "returned" => bp_status # 0

(***************************************************************************)
(* The run loops from the entry into Done.  From<DoneEvent> is applied to   *)
(* both values of DoneEvent.with_errors, so that the Done states, the exit  *)
(* tests and the Service arm are exercised for both, although the protocol  *)
(* machine as it stands only ever ends with with_errors = true (SpecMgr).   *)
(***************************************************************************)
RunInit ==
    /\ dm \in {DMFrom("Service", DMEvent("PortReady", s, FALSE)) :
                 s \in {t \in StartSettings : t.path.some}}
    /\ dm_pc = "service"
    /\ dm_status = -1
    /\ bp \in {BPFrom("Done", BPEvent("Done", dm.settings, 0, with_errors)) :
                 with_errors \in BOOLEAN}
    /\ bp_pc = "check"
    /\ bp_status = -1
    /\ open_index = 0
    /\ ports_opened = 0
    /\ open_ports = {}
    /\ mh = [MachHistInit EXCEPT !.sessions = 1]

RunNext ==
    \/ BpRunCheck
    \/ BpStepDone
    \/ DMServiceReturn
    \/ DMRunCheck
    \/ DMStepDone

InitRun == RunInit /\ WaitIdle /\ TermIdle /\ KernIdle /\ BuildIdle

SpecRun == InitRun /\ [][RunNext]_vars

\* C16: from Service the manager goes to Done with with_error = false
\* exactly when the protocol machine's run returned 0, and to WaitForPort,
\* with the settings (and so the path) it had, exactly when it returned
\* another status; it leaves Service in no other way.
C16_ServiceToDoneOrWaitForPort ==
    [][ (dm.state = "Service" /\ dm' # dm) =>
          /\ bp_pc = "returned"
          /\ dm'.state \in {"Done", "WaitForPort"}
          /\ dm'.state = "Done" <=> bp_status = 0
          /\ dm'.state = "WaitForPort" <=> bp_status # 0
          /\ dm'.state = "Done" => ~dm'.with_error /\ ~dm'.should_exit
          /\ dm'.settings = dm.settings
          /\ dm'.settings.path = dm.settings.path ]_vars

\* the protocol machine returned 0 and the manager is in Done without error
C16_Witness ==
    /\ dm_pc = "check"
    /\ bp_pc = "dropped"
    /\ bp_status = 0
    /\ dm.state = "Done"
    /\ ~dm.with_error
    /\ ~dm.should_exit
    /\ dm.settings.path = Some(Path)

\* C20: in both machines run returns exactly when the state is Done with
\* should_exit = true; that state is entered in the one step that follows
\* the entry into Done with should_exit = false, with the same with_error,
\* so that Done's run (its report) has happened exactly once; the status is
\* 0 if with_error is false and nonzero otherwise.
C20_RunReturnsAfterTwoPhaseDone ==
    /\ [](/\ bp_pc \in {"returned", "dropped"} <=>
               (bp.state = "Done" /\ bp.should_exit /\ bp_pc # "check")
          /\ bp_pc \in {"returned", "dropped"} =>
               /\ mh.bp_reports = 1
               /\ bp_status = 0 <=> ~bp.with_error
               /\ bp_status \in {0, 1}
          /\ dm_pc = "returned" <=>
               (dm.state = "Done" /\ dm.should_exit /\ dm_pc # "check")
          /\ dm_pc = "returned" =>
               /\ mh.dm_reports = 1
               /\ dm_status = 0 <=> ~dm.with_error
               /\ dm_status \in {0, 1})
    /\ [][ /\ (bp.state = "Done" /\ bp' # bp) =>
                /\ ~bp.should_exit /\ bp'.should_exit
                /\ bp' = [bp EXCEPT !.should_exit = TRUE]
                /\ mh'.bp_reports = mh.bp_reports + 1
           /\ (dm.state = "Done" /\ dm' # dm) =>
                /\ ~dm.should_exit /\ dm'.should_exit
                /\ dm' = [dm EXCEPT !.should_exit = TRUE]
                /\ mh'.dm_reports = mh.dm_reports + 1
           /\ (bp.state = "Done" /\ bp.should_exit /\ bp_pc = "check") =>
                bp_pc' = "returned"
           /\ (dm.state = "Done" /\ dm.should_exit /\ dm_pc = "check") =>
                dm_pc' = "returned" ]_vars

\* both runs have returned 0 after one report each
C20_Witness ==
    /\ dm_pc = "returned"
    /\ dm_status = 0
    /\ mh.dm_reports = 1
    /\ bp_status = 0
    /\ mh.bp_reports = 1
    /\ dm.state = "Done" /\ dm.should_exit /\ ~dm.with_error

\* C17: from Init the manager goes to WaitForPort if Settings.path is set
\* and to SelectPort otherwise, with the settings it was started with, and
\* to no other state.
C17_InitToWaitOrSelect ==
    [][ (dm.state = "Init" /\ dm_pc = "step" /\ dm_pc' # dm_pc) =>
          /\ dm_pc' = "check"
          /\ dm'.state = (IF dm.settings.path.some THEN "WaitForPort"
                                                   ELSE "SelectPort")
          /\ dm'.settings = dm.settings ]_vars

\* started without a path, the manager has just gone from Init to SelectPort
C17_Witness ==
    /\ dm_pc = "check"
    /\ dm.state = "SelectPort"
    /\ ~dm.settings.path.some
    /\ mh.declines = 0
    /\ mh.chosen = <<>>
    /\ mh.sessions = 0

\* C18 (checked under SpecWait): the manager goes from WaitForPort to Service
\* only after the wait returned false, which it does only after an
\* enumeration listed the named device, and to SelectPort when the wait
\* returned true; when the named device is never enumerable the wait can
\* only end cancelled, and the manager goes to SelectPort and never to
\* Service.
C18_ServiceOnlyAfterDeviceListed ==
    /\ dm_state \in {"WaitForPort", "Service", "SelectPort"}
    /\ dm_state = "Service" =>
          main_pc = "returned" /\ ~cancelled /\ wh.enum_hit
    /\ dm_state = "SelectPort" =>
          main_pc = "returned" /\ cancelled
    /\ dm_state # "WaitForPort" => main_pc = "returned"
    /\ ~wh.dev_ever =>
          /\ dm_state # "Service"
          /\ main_pc = "returned" =>
                /\ cancelled
                /\ dm_state = "WaitForPort" => ENABLED WaitForPortStep

\* the device was never there, two polls timed out, the user cancelled, and
\* the manager is in SelectPort
C18_Witness ==
    /\ dm_state = "SelectPort"
    /\ ~wh.dev_ever
    /\ ~wh.enum_hit
    /\ wh.cancel_sent
    /\ attempt = MaxAttempt

\* the text of s before its first ':' (all of s when it has none)
BeforeFirstColon(s) ==
    LET colons == {i \in 1..Len(s) : s[i] = ChColon}
        first  == IF colons = {} THEN Len(s) + 1
                  ELSE CHOOSE i \in colons : \A j \in colons : i <= j
    IN  SubSeq(s, 1, first - 1)

\* C19: from SelectPort, when the user picks a device the manager goes to
\* Service with Settings.path set to the picked list entry without its
\* description (the text before the first ':') and every other field as it
\* was; when the user declines, it goes to SelectPort again with the
\* settings unchanged, where the list is enumerated anew.
C19_SelectPortSetsStrippedPath ==
    [][ (dm.state = "SelectPort" /\ dm_pc = "step" /\ dm_pc' # dm_pc) =>
          /\ dm_pc' = "check"
          /\ IF mh'.chosen # <<>>
             THEN /\ dm'.state = "Service"
                  /\ dm'.settings =
                        [dm.settings EXCEPT !.path = Some(BeforeFirstColon(mh'.chosen))]
                  /\ \A i \in 1..Len(dm'.settings.path.val) :
                        dm'.settings.path.val[i] # ChColon
             ELSE /\ dm'.state = "SelectPort"
                  /\ dm'.settings = dm.settings
                  /\ mh'.declines = mh.declines + 1 ]_vars

\* after declining once the user picked the usb device listed with its
\* description, and Service has its raw name as the path
C19_Witness ==
    /\ dm_pc = "check"
    /\ dm.state = "Service"
    /\ mh.declines = 1
    /\ mh.chosen = extended_name(SysPorts[1])
    /\ dm.settings.path = Some(SysPorts[1].port_name)
    /\ dm.settings.kernel_image.some
(***************************************************************************)
(* The exit status of the manager's run.                                    *)
(***************************************************************************)
\* every try of this session to open the port has failed
OpenGaveUp == mh.open_fails = OpenDelays + 1

InSession == bp_pc \in {"step", "open", "setup", "check"}

\* C22: during a session at most one port is open and it has one holder:
\* in TerminalMode and KernelSendMode the state holds the one open port; in
\* Done no port is held and none is open; in Init no port is held, and none
\* is open before open_and_setup_port has opened one
C22_PortHasExactlyOneHolder ==
    InSession =>
        /\ Cardinality(open_ports) <= 1
        /\ bp.state \in {"TerminalMode", "KernelSendMode"} =>
              bp.port # 0 /\ open_ports = {bp.port}
        /\ bp.state = "Done" => bp.port = 0 /\ open_ports = {}
        /\ bp.state = "Init" =>
              /\ bp.port = 0
              /\ bp_pc # "setup" => open_ports = {}
              /\ bp_pc = "setup" => open_ports = {ports_opened}

\* the second session's port has gone to KernelSendMode and back
C22_Witness ==
    /\ bp_pc = "step"
    /\ bp.state = "TerminalMode"
    /\ mh.sessions = 2
    /\ mh.switches = 1
    /\ mh.failed >= 1
    /\ bp.port = 2
    /\ open_ports = {2}
\* C23: entering Service creates a protocol machine in Init that holds no
\* port; when its run has returned no port is open; so no port is open while
\* the manager is in Init, WaitForPort, SelectPort or Done, and never more
\* than one port is open
C23_FreshSessionAndPortDropped ==
    /\ [](/\ Cardinality(open_ports) <= 1
          /\ bp_pc \in {"returned", "dropped"} => open_ports = {}
          /\ (dm_pc # "idle"
              /\ dm.state \in {"Init", "WaitForPort", "SelectPort", "Done"})
             => open_ports = {})
    /\ [][ (dm_pc = "step" /\ dm_pc' = "service") =>
             /\ bp' = factory(dm.settings)
             /\ bp'.state = "Init"
             /\ bp'.port = 0
             /\ bp_pc' = "step"
             /\ open_ports' = {} ]_vars

\* a session that had a port open is over and the manager waits again
C23_Witness ==
    /\ dm_pc = "step"
    /\ dm.state = "WaitForPort"
    /\ bp_pc = "dropped"
    /\ mh.sessions = 1
    /\ mh.switches = 1
    /\ ports_opened = 1
    /\ open_ports = {}
(***************************************************************************)
(* The settings the states carry.                                           *)
(***************************************************************************)
\* C24: settings.path is Some whenever the manager is in WaitForPort or in
\* Service and whenever a protocol machine exists, so neither the unwrap()
\* of WaitForPortState::run nor the assert_ne! of the protocol's
\* InitState::run fails
C24_PathIsSomeWhereItIsNeeded ==
    /\ (dm_pc # "idle" /\ dm.state \in {"WaitForPort", "Service"})
          => dm.settings.path.some
    /\ bp_pc # "idle" => bp.settings.path.some

\* the manager waits again after a port error, with the path the user picked
C24_Witness ==
    /\ dm_pc = "step"
    /\ dm.state = "WaitForPort"
    /\ mh.sessions = 1
    /\ bp_pc = "dropped"
    /\ mh.chosen # <<>>
    /\ dm.settings.path = Some(split_colon_next(mh.chosen))
(***************************************************************************)
(* The order of the calls one send_kernel makes on the port.                *)
(***************************************************************************)
\* clear the input buffer, write the header, poll for the reply, write chunks
PortOpsOrder == <<"clear", "write_size", "poll", "write_chunk">>

\* the calls an attempt makes on the port come in the order of PortOpsOrder,
\* and what the port took after the header is the image from its first byte
PortOpsInOrder ==
    /\ IsPrefixOf(kh.ops, PortOpsOrder)
    /\ Len(port_out) > 0 => "clear" \in {kh.ops[i] : i \in 1..Len(kh.ops)}
    /\ Len(port_out) > 4 =>
          SubSeq(port_out, 5, Len(port_out))
              = SubSeq(file.data, 1, Len(port_out) - 4)

\* C25: in every attempt, a retry included, the calls on the port are, in
\* this order, the clear of the input buffer, the write of the 4-byte
\* header, the polls for the acknowledgment and the writes of the image from
\* its offset 0; nothing is written before the clear, and no chunk is
\* written before the acknowledgment 'O','K' was read
C25_ClearHeaderAckThenImage ==
    /\ PortOpsInOrder
    /\ (\E i \in 1..Len(kh.ops) : kh.ops[i] = "write_chunk") => ok_buf = OK
(***************************************************************************)
(* The limit on the length of the image.                                    *)
(***************************************************************************)
\* the open file is longer than 0xffffffff bytes
Oversized(f) == f.exists /\ f.size_hi > 0

\* the open file is exactly 0xffffffff bytes long
IsMaxLength(f) ==
    f.exists /\ f.size_hi = 0 /\ f.size_b31 = 1 /\ f.size = Low31Max

\* C26: a file longer than 0xffffffff is rejected with an error before any
\* call on the port (no clear, no write); a file of exactly 0xffffffff bytes
\* passes the check, and its header is ff ff ff ff, the whole length
C26_OversizedRejectedMaxAccepted ==
    /\ Oversized(file) =>
          /\ kern_pc \in {"metadata", "sent_err", "call"}
          /\ kh.ops = <<>>
          /\ port_out = <<>>
    /\ (kern_pc = "metadata" /\ IsMaxLength(file)) =>
          ENABLED (KernMetadata(TRUE) /\ kern_pc' = "clear")
    /\ (IsMaxLength(file) /\ Len(port_out) >= 4) =>
          SubSeq(port_out, 1, 4) = <<255, 255, 255, 255>>

\* the header of the file of 0xffffffff bytes has gone out
C26_Witness ==
    /\ IsMaxLength(file)
    /\ kern_pc = "poll_ok"
    /\ kh.ops = <<"clear", "write_size">>
    /\ port_out = <<255, 255, 255, 255>>
\* C27: an oversized image fails the attempt it is found in and is not tried
\* again: KernelSendMode calls send_kernel once for it
C27_OversizedNotRetried ==
    /\ Oversized(image) => kh.attempts <= 1
    /\ [][ (kern_pc = "sent_err" /\ Oversized(file)) => kern_pc' # "call" ]_vars
(***************************************************************************)
(* The chunk writes of write_kernel_image.                                  *)
(***************************************************************************)
\* C28: a chunk write that times out leaves the chunk, the file position,
\* the count and what the port took as they were, and the same chunk is
\* written again; another error ends the attempt with an error and nothing
\* counted; only a write that succeeded adds the chunk to what the port took
\* and its length to the count.  So the chunk on its way is always the image
\* at the offset of the count, and what the port took is the header and the
\* image up to the count.  (A write that took only a part of the chunk
\* panics, with nothing counted.)
C28_TimeoutRetriesSameChunk ==
    /\ [](kern_pc = "write_chunk" =>
            /\ file.pos = written + Len(chunk)
            /\ file.pos <= Len(file.data)
            /\ chunk = SubSeq(file.data, written + 1, file.pos))
    /\ [](kern_pc \in {"image_loop", "read_file", "write_chunk"} =>
            /\ written <= Len(file.data)
            /\ port_out = size_to_le_bytes(file) \o SubSeq(file.data, 1, written))
    /\ [][ kern_pc = "write_chunk" =>
             \/ /\ kh'.timeouts = kh.timeouts + 1
                /\ UNCHANGED <<kern_pc, chunk, file, written, port_out>>
             \/ /\ kh'.timeouts = kh.timeouts
                /\ kern_pc' = "image_loop"
                /\ written' = written + Len(chunk)
                /\ port_out' = port_out \o chunk
             \/ /\ kh'.timeouts = kh.timeouts
                /\ kern_pc' = "sent_err"
                /\ UNCHANGED <<written, port_out>>
             \/ /\ kern_pc' = "panicked"
                /\ UNCHANGED written ]_vars

\* the second chunk of the big image timed out once and then went out
C28_Witness ==
    /\ kern_pc = "image_loop"
    /\ file.size = BigImageLen
    /\ kh.timeouts = 1
    /\ kh.chunks = 2
    /\ written = BigImageLen
    /\ port_out = to_le_bytes(BigImageLen) \o file.data
(***************************************************************************)
(* The unreachable!() arms.                                                 *)
(***************************************************************************)
\* C29: no unreachable!() of the two machines is executed: every event a
\* state's run returns has an arm in step for that state, and TerminalMode and
\* KernelSendMode hold their port when they are run
C29_NoUnreachableExecuted ==
    /\ dm_pc # "unreachable"
    /\ bp_pc # "unreachable"
    /\ (bp_pc = "step" /\ bp.state \in {"TerminalMode", "KernelSendMode"})
          => bp.port # 0
    /\ dm_pc = "step" =>
          dm.state \in {"Init", "WaitForPort", "SelectPort", "Service", "Done"}
    /\ bp_pc = "step" =>
          bp.state \in {"Init", "TerminalMode", "KernelSendMode", "Done"}

\* a second session, begun after a declined and an accepted selection, went
\* through TerminalMode, KernelSendMode and TerminalMode to Done and returned
C29_Witness ==
    /\ dm_pc = "service"
    /\ bp_pc = "returned"
    /\ bp.state = "Done"
    /\ bp.should_exit
    /\ mh.sessions = 2
    /\ mh.declines = 1
    /\ mh.switches = 1
    /\ mh.attempts >= 1
    /\ mh.bp_reports = 1
\* C30: no step of either machine changes the settings, but for the path
\* that SelectPort sets to the device the user picked on its way to Service:
\* baud rate, data bits, stop bits, parity, flow control and kernel image
\* stay what they were at the start; and the protocol machine has, in every
\* state, the settings it was created with, those of the manager
C30_SettingsCarriedUnchanged ==
    /\ [](bp_pc \notin {"idle", "dropped"} => bp.settings = dm.settings)
    /\ [][ /\ [dm.settings EXCEPT !.path = dm'.settings.path] = dm'.settings
           /\ dm'.settings.path # dm.settings.path =>
                 /\ dm.state = "SelectPort"
                 /\ dm'.state = "Service"
                 /\ mh'.chosen # <<>>
                 /\ dm'.settings.path = Some(split_colon_next(mh'.chosen))
           /\ (bp_pc # "idle" /\ dm_pc = "service") => bp'.settings = bp.settings
         ]_vars

\* started without a path at 115200 baud with an image named: after a
\* session that went to KernelSendMode and back, the manager waits again
C30_Witness ==
    /\ dm_pc = "step"
    /\ dm.state = "WaitForPort"
    /\ bp_pc = "dropped"
    /\ mh.switches = 1
    /\ mh.attempts >= 1
    /\ mh.chosen # <<>>
    /\ dm.settings = Settings(Some(split_colon_next(mh.chosen)), 115200,
                              Some(<<ChU>>))
    /\ bp.settings = dm.settings
(***************************************************************************)
(* SettingsBuilder (settings.rs:52-118): new, the seven setters, finalize.  *)
(***************************************************************************)
\* settings.rs:58-71: SettingsBuilder::new, the settings it starts from
SettingsBuilder_new ==
    [ path |-> None, baud_rate |-> 230400, data_bits |-> "Eight",
      flow_control |-> "None", parity |-> "None", stop_bits |-> "One",
      kernel_image |-> None ]

\* settings.rs:74-77
SettingsBuilder_path(b, v) == [b EXCEPT !.path = Some(v)]
\* settings.rs:80-83
SettingsBuilder_baud_rate(b, v) == [b EXCEPT !.baud_rate = v]
\* settings.rs:86-89
SettingsBuilder_data_bits(b, v) == [b EXCEPT !.data_bits = v]
\* settings.rs:92-95
SettingsBuilder_flow_control(b, v) == [b EXCEPT !.flow_control = v]
\* settings.rs:98-101
SettingsBuilder_parity(b, v) == [b EXCEPT !.parity = v]
\* settings.rs:104-107
SettingsBuilder_stop_bits(b, v) == [b EXCEPT !.stop_bits = v]

\* a plausible slip: the setter copied from path still writes path
SettingsBuilder_kernel_image_writes_path(b, v) == [b EXCEPT !.path = Some(v)]

\* settings.rs:110-113
SettingsBuilder_kernel_image(b, v) == [b EXCEPT !.kernel_image = Some(v)]

\* settings.rs:115-117
SettingsBuilder_finalize(b) == b

\* the fields of Settings
SettingsFields ==
    {"path", "baud_rate", "data_bits", "flow_control", "parity", "stop_bits",
     "kernel_image"}

\* the values the setters are called with
SetterValues ==
    [ path         |-> {Path, <<ChSlash, ChU, ChOne>>},
      baud_rate    |-> {96000, 230400},
      data_bits    |-> {"Five", "Six", "Seven", "Eight"},
      flow_control |-> {"None", "Software", "Hardware"},
      parity       |-> {"None", "Odd", "Even"},
      stop_bits    |-> {"One", "Two"},
      kernel_image |-> {<<ChU>>, <<ChOne>>} ]

\* the call of the setter named f
CallSetter(f, b, v) ==
    CASE f = "path"         -> SettingsBuilder_path(b, v)
      [] f = "baud_rate"    -> SettingsBuilder_baud_rate(b, v)
      [] f = "data_bits"    -> SettingsBuilder_data_bits(b, v)
      [] f = "flow_control" -> SettingsBuilder_flow_control(b, v)
      [] f = "parity"       -> SettingsBuilder_parity(b, v)
      [] f = "stop_bits"    -> SettingsBuilder_stop_bits(b, v)
      [] f = "kernel_image" -> SettingsBuilder_kernel_image(b, v)

BuildHistInit ==
    [ last        |-> [f \in SettingsFields |-> None],  \* the value each setter was last called with
      overwritten |-> FALSE ]    \* some setter was called again with another value

\* let builder = SettingsBuilder::new()
BuildInit ==
    /\ sb = SettingsBuilder_new
    /\ sb_pc = "building"
    /\ sb_result = <<>>
    /\ sbh = BuildHistInit

\* builder = builder.f(v)
BuildSet(f, v) ==
    /\ sb_pc = "building"
    /\ sb' = CallSetter(f, sb, v)
    /\ sbh' = [sbh EXCEPT !.last[f] = Some(v),
                          !.overwritten = @ \/ (sbh.last[f].some
                                                /\ sbh.last[f].val # v)]
    /\ UNCHANGED <<sb_pc, sb_result>>
    /\ UNCHANGED notBuildVars

\* let settings = builder.finalize()
BuildFinalize ==
    /\ sb_pc = "building"
    /\ sb_result' = SettingsBuilder_finalize(sb)
    /\ sb_pc' = "finalized"
    /\ UNCHANGED <<sb, sbh>>
    /\ UNCHANGED notBuildVars

BuildNext ==
    \/ \E f \in SettingsFields : \E v \in SetterValues[f] : BuildSet(f, v)
    \/ BuildFinalize

InitBuild == BuildInit /\ WaitIdle /\ TermIdle /\ KernIdle /\ MachIdle

SpecBuild == InitBuild /\ [][BuildNext]_vars

\* the defaults: no path, 230400 baud, 8 data bits, no flow control, no
\* parity, 1 stop bit, no kernel image
DefaultSettings ==
    [ path |-> None, baud_rate |-> 230400, data_bits |-> "Eight",
      flow_control |-> "None", parity |-> "None", stop_bits |-> "One",
      kernel_image |-> None ]

\* what the field f is to be after the calls noted in h
ExpectedField(h, f) ==
    IF ~h.last[f].some THEN DefaultSettings[f]
    ELSE IF f \in {"path", "kernel_image"} THEN Some(h.last[f].val)
    ELSE h.last[f].val

\* C31: finalize returns Settings in which every field is the value its
\* setter was last called with, or its default when the setter was never
\* called; a setter call changes no field but its own, and two setters of
\* different fields give the same builder in either order
C31_BuilderKeepsLastValueSet ==
    /\ [](sb_pc = "finalized" =>
            \A f \in SettingsFields : sb_result[f] = ExpectedField(sbh, f))
    /\ [](sb_pc = "building" =>
            \A f, g \in SettingsFields :
              \A v \in SetterValues[f], w \in SetterValues[g] :
                f # g => CallSetter(f, CallSetter(g, sb, w), v)
                           = CallSetter(g, CallSetter(f, sb, v), w))
    /\ [][ \A f \in SettingsFields :
             sbh'.last[f] = sbh.last[f] => sb'[f] = sb[f] ]_vars

\* every setter was called, one of them twice with different values, and
\* finalize returned none of the defaults
C31_Witness ==
    /\ sb_pc = "finalized"
    /\ sbh.overwritten
    /\ \A f \in SettingsFields :
          sbh.last[f].some /\ sb_result[f] # DefaultSettings[f]
(***************************************************************************)
(* One session from start to kernel push: the manager, the protocol        *)
(* machine, the relay loop and send_kernel run together on one port.  The   *)
(* surroundings are those of the walk-through in the specification: no      *)
(* path is given, one device is listed, the port opens and is configured,   *)
(* the device sends 'A', 'B' and the command, and the image has 10 bytes.   *)
(***************************************************************************)
\* a second printable byte, 'B'
LetterB == 66

\* the bytes the device sends while the session is in TerminalMode
ScenarioBytes == <<LetterA, LetterB, ETX, ETX, ETX>>

\* the length of the image file of the walk-through
ScenarioImageLen == 10

\* the image file settings.kernel_image (or the default name) leads to
ScenarioImage == ImageFile(0, ScenarioImageLen, ScenarioImageLen)

\* the only device the enumerator lists
ScenarioDevices == {1}

\* bootcom is started without a path
SessionInit ==
    /\ dm \in {DMFrom("Init", DMEvent("none", Settings(None, 230400, k), FALSE)) :
                 k \in {None, Some(<<ChU>>)}}
    /\ dm_pc = "step"
    /\ dm_status = -1
    /\ bp = <<>>
    /\ bp_pc = "idle"
    /\ bp_status = -1
    /\ open_index = 0
    /\ ports_opened = 0
    /\ open_ports = {}
    /\ mh = MachHistInit

\* states.rs:98-116: the list holds the one device; the user picks it or
\* declines
SessionSelectPort ==
    \E selection \in 0..1 : DMStepSelectPort(ScenarioDevices, selection)

\* states.rs:108-123: TerminalModeState::run begins on the port that was
\* opened for the session
SessionTermEnter ==
    /\ bp_pc = "step"
    /\ bp.state = "TerminalMode"
    /\ term_pc = "idle"
    /\ port_in' = <<>>
    /\ available' = 0
    /\ stdout' = <<>>
    /\ send_kernel' = FALSE
    /\ got_errors' = FALSE
    /\ term_pc' = "bytes_to_read"
    /\ term_event' = "none"
    /\ th' = TermHistInit
    /\ UNCHANGED <<waitVars, kernVars, machVars, buildVars>>

\* the device sends the next byte of the walk-through
SessionDeviceSend ==
    /\ term_pc \in {"bytes_to_read", "read"}
    /\ th.dev_sent < Len(ScenarioBytes)
    /\ DeviceSend(ScenarioBytes[th.dev_sent + 1])

\* state_machine.rs:120-127: the step takes the event TerminalModeState::run
\* returned
SessionTermLeave ==
    /\ term_pc = "returned"
    /\ mh.switches = 0
    /\ BpStepTerminal(term_event)

\* states.rs:231-241: KernelSendModeState::run begins on the same port, with
\* whatever the relay loop left unread in its input buffer
SessionKernEnter ==
    /\ bp_pc = "step"
    /\ bp.state = "KernelSendMode"
    /\ kern_pc = "idle"
    /\ image' = ScenarioImage
    /\ file' = NoFile
    /\ k_in' = port_in
    /\ port_out' = <<>>
    /\ ok_buf' = <<0, 0>>
    /\ tries' = 0
    /\ written' = 0
    /\ chunk' = <<>>
    /\ kern_pc' = "call"
    /\ kern_event' = "none"
    /\ kh' = KernHistInit
    /\ UNCHANGED <<waitVars, termVars, machVars, buildVars>>

\* states.rs:247-252: send_kernel returned Err: the round is noted, then the
\* loop goes on
SessionKernFailed ==
    /\ kern_pc = "sent_err"
    /\ mh.failed < kh.attempts
    /\ BpKernelAttempt("err")

SessionKernLoop ==
    /\ kern_pc = "sent_err"
    /\ mh.failed = kh.attempts
    /\ KernLoopErr

\* a panic inside send_kernel unwinds through the protocol machine
SessionKernPanic ==
    /\ kern_pc = "panicked"
    /\ BpKernelAttempt("panic")

\* state_machine.rs:135-142: the step takes SwitchToTerminalMode
SessionKernLeave ==
    /\ kern_pc = "returned"
    /\ BpKernelAttempt("ok")

SessionNext ==
    \/ DMStepInit
    \/ SessionSelectPort
    \/ DMEnterService
    \/ DMServiceReturn
    \/ DMRunCheck
    \/ BpInitRun
    \/ BpOpenTry(TRUE)
    \/ BpSetup("ok")
    \/ BpStepDone
    \/ BpRunCheck
    \/ SessionTermEnter
    \/ SessionDeviceSend
    \/ \E ok \in BOOLEAN : TermBytesToRead(ok)
    \/ \E t \in 1..Len(ScenarioBytes) : TermReadOk(t)
    \/ TermReadErr
    \/ TermReturn
    \/ SessionTermLeave
    \/ SessionKernEnter
    \/ KernCall
    \/ KernOpen
    \/ \E md_ok \in BOOLEAN : KernMetadata(md_ok)
    \/ \E clear_ok \in BOOLEAN : KernClear(clear_ok)
    \/ \E write_ok \in BOOLEAN : KernWriteSize(write_ok)
    \/ \E res \in PollResults : KernPollOk(res)
    \/ \E b \in ReplyBytes : DeviceReply(b)
    \/ KernImageLoop
    \/ \E read_ok \in BOOLEAN : KernReadFile(read_ok)
    \/ \E res \in WriteResults : KernWriteChunk(res)
    \/ KernSendModeState_run
    \/ SessionKernFailed
    \/ SessionKernLoop
    \/ SessionKernPanic
    \/ SessionKernLeave

InitSession == SessionInit /\ WaitIdle /\ TermIdle /\ KernIdle /\ BuildIdle

SpecSession == InitSession /\ [][SessionNext]_vars
(***************************************************************************)
(* C32                                                                      *)
(***************************************************************************)
\* the relay loop has read the five bytes of the device as one chunk
ReadAsOneChunk ==
    /\ term_pc \in {"after_loop", "returned"}
    /\ th.chunk = ScenarioBytes
    /\ th.read_log = ScenarioBytes

\* send_kernel has returned from its first call, the device having answered
\* 'O','K' to the first poll
PushedWithImmediateOK ==
    /\ kern_pc \in {"sent_ok", "returned"}
    /\ kh.attempts = 1
    /\ tries = 1
    /\ ok_buf = OK

\* what the image transfer puts on the wire
ScenarioStream == size_to_le_bytes(ScenarioImage) \o ScenarioImage.data

\* C32: started without a path, the manager reaches SelectPort; with the one
\* listed device picked it enters Service with that device's path; with the
\* port open and 0x41 0x42 0x03 0x03 0x03 read as one chunk, TerminalMode
\* forwards exactly 0x41 0x42 and switches to KernelSendMode; with a 10-byte
\* image and an immediate OK the header and the 10 bytes are sent and the
\* protocol is back in TerminalMode.
C32_WalkThrough ==
    /\ mh.sessions = 0 => dm.state \in {"Init", "SelectPort", "Service"}
    /\ dm.state = "Service" =>
          dm.settings.path = Some(SysPorts[1].port_name)
    /\ ReadAsOneChunk => stdout = <<LetterA, LetterB>> /\ send_kernel
    /\ (ReadAsOneChunk /\ kern_pc # "idle") => mh.switches = 1
    /\ mh.switches = 1 /\ kern_pc \notin {"idle", "returned"} /\ bp_pc = "step"
          => bp.state = "KernelSendMode"
    /\ PushedWithImmediateOK => port_out = ScenarioStream
    /\ (PushedWithImmediateOK /\ kern_pc = "returned" /\ bp_pc = "check")
          => bp.state = "TerminalMode"

\* the same walk-through with the line end println!() adds after the chunk
C32_WalkThroughWithLineEnd ==
    /\ mh.sessions = 0 => dm.state \in {"Init", "SelectPort", "Service"}
    /\ dm.state = "Service" =>
          dm.settings.path = Some(SysPorts[1].port_name)
    /\ ReadAsOneChunk => stdout = <<LetterA, LetterB, LineFeed>> /\ send_kernel
    /\ (ReadAsOneChunk /\ kern_pc # "idle") => mh.switches = 1
    /\ mh.switches = 1 /\ kern_pc \notin {"idle", "returned"} /\ bp_pc = "step"
          => bp.state = "KernelSendMode"
    /\ PushedWithImmediateOK => port_out = ScenarioStream
    /\ (PushedWithImmediateOK /\ kern_pc = "returned" /\ bp_pc = "check")
          => bp.state = "TerminalMode"

\* the walk-through has run to its end
C32_Reached ==
    /\ ReadAsOneChunk
    /\ PushedWithImmediateOK
    /\ kern_pc = "returned"
    /\ bp_pc = "check"
(***************************************************************************)
(* C33                                                                      *)
(***************************************************************************)
\* C33: in KernelSendMode a send_kernel that fails (an unrecoverable error,
\* the device disconnected) takes the protocol machine to Done.
C33_KernelSendErrorLeadsToDone ==
    [][(InKernelLoop /\ mh'.failed = mh.failed + 1) => bp'.state = "Done"]_vars

\* what the machine does instead: whatever send_kernel returns, the state
\* that follows KernelSendMode is KernelSendMode or TerminalMode
KernelSendModeNeverDone ==
    [][InKernelLoop => bp'.state \in {"KernelSendMode", "TerminalMode"}]_vars

C35_SendsFindReceiversAlive ==
    /\ main_pc = "send_done" => watcher_ends
    /\ watch_pc = "send_cancel" => WaitFrameAlive
    /\ main_pc # "panicked"
    /\ watch_pc # "panicked"
(***************************************************************************)
(* C36                                                                      *)
(***************************************************************************)
\* C36: KernelSendMode goes back to TerminalMode only after a complete
\* transfer in that attempt: the 4-byte header written, the acknowledgment
\* received and all the bytes of the image written; a cancelled image
\* selection is not reported as a transfer.
C36_BackOnlyAfterCompleteTransfer ==
    kern_pc \in {"sent_ok", "returned"} =>
        /\ file.exists
        /\ kh.acked
        /\ written = file.size
        /\ port_out = size_to_le_bytes(file) \o file.data
(***************************************************************************)
(* C37                                                                      *)
(***************************************************************************)
\* how many 0x03 bytes a sequence of bytes holds
ETXCount(s) == Cardinality({i \in DOMAIN s : s[i] = ETX})

\* the bytes read so far end with exactly three 0x03, which did not arrive
\* in one chunk
SplitTrigger ==
    /\ th.reads = 1
    /\ ExactlyThreeTrailing(th.read_log)
    /\ ~ExactlyThreeTrailing(th.chunk)

RoundDone == kern_pc = "write_chunk" /\ kern_pc' = "image_loop"

\* C38: write_kernel_image terminates when the port accepts every write,
\* whatever the file delivers: it completes with exactly `size` bytes
\* written or returns an error, and no round of its loop goes by without
\* progress.
C38_EveryRoundMakesProgress ==
    /\ [](kern_pc = "sent_ok" /\ file.exists /\ file.size_b31 = 0
            => written = file.size)
    /\ [][RoundDone => written' > written]_vars

\* the loop is at its head again with the file at its end and bytes still
\* to be written: the state it was in one round before
EndOfFileLoop ==
    /\ kern_pc = "image_loop"
    /\ file.pos = Len(file.data)
    /\ chunk = <<>>
    /\ kh.chunks > 0
    /\ (file.size_b31 = 1 \/ written < file.size)

(***************************************************************************)
(* C39                                                                      *)
(***************************************************************************)
\* C39: a port write that succeeds with fewer bytes than the chunk does not
\* abort the process, and the count of written bytes grows by what the port
\* accepted.
C39_ShortWriteIsHandled ==
    [][kern_pc = "write_chunk" =>
          /\ kern_pc' # "panicked"
          /\ written' - written = Len(port_out') - Len(port_out)]_vars

(***************************************************************************)
(* C40                                                                      *)
(***************************************************************************)
\* a message is put on the channel in this step
CancelSend == Len(cancel_chan') > Len(cancel_chan)
DoneSend == Len(done_chan') > Len(done_chan)

\* C40: during one wait_for_port each channel carries at most one message:
\* the watcher sends at most one cancel and exits right after, the poller
\* sends at most one done and leaves its loop right after, and it sends no
\* done once it has received a cancel.
C40_OneMessagePerChannel ==
    /\ [](main_pc # "idle" =>
            /\ Len(cancel_chan) <= 1
            /\ Len(done_chan) <= 1
            /\ (wh.cancel_sent => watch_pc \in {"exit", "exited"})
            /\ (wh.done_sent => main_pc \in {"join", "returned", "killed"}))
    /\ [][CancelSend => ~wh.cancel_sent /\ watch_pc' = "exit"]_vars
    /\ [][DoneSend => ~wh.done_sent /\ ~cancelled /\ main_pc' = "join"]_vars

\* both signals were sent, one each, and the watcher is gone
C40_Witness ==
    /\ wh.cancel_sent
    /\ wh.done_sent
    /\ Len(cancel_chan) = 1
    /\ watch_pc = "exited"
    /\ main_pc = "join"

=============================================================================
